---- MODULE Spec2Model ----
(***************************************************************************)
(* The discover job handler of the agent (crates/agent/src/discovers.rs):  *)
(* workers that dequeue a discover row inside a transaction, run the       *)
(* pre-flight checks, pull and discover subprocesses, merge the discovered *)
(* bindings into the draft, optionally publish, and resolve the row.       *)
(*                                                                         *)
(* The database is modelled as committed tables plus one write overlay per *)
(* open transaction (READ COMMITTED: a read sees the committed tables and  *)
(* the transaction's own writes; COMMIT applies the overlay, a dropped     *)
(* transaction discards it).  Row locks taken by the dequeue are the       *)
(* workers' claims.                                                        *)
(***************************************************************************)
EXTENDS Integers, Sequences, FiniteSets, TLC

\* ------------------------------------------------------------------ bounds
NumWorkers == 2
NumJobs == 2

Workers == 1..NumWorkers
JobIds == 1..NumJobs

\* ------------------------------------------------------------- option types
None == [some |-> FALSE]
Some(v) == [some |-> TRUE, v |-> v]

\* -------------------------------------------------------------- JobStatus
Queued == [type |-> "queued"]
WrongProtocol == [type |-> "wrongProtocol"]
TagFailed == [type |-> "tagFailed"]
ImageForbidden == [type |-> "imageForbidden"]
PullFailed == [type |-> "pullFailed"]
DiscoverFailed == [type |-> "discoverFailed"]
MergeFailed == [type |-> "mergeFailed"]
Success(publication_id, specs_unchanged) ==
    [type |-> "success", publication_id |-> publication_id,
     specs_unchanged |-> specs_unchanged]

TerminalTypes ==
    {"wrongProtocol", "tagFailed", "imageForbidden", "pullFailed",
     "discoverFailed", "mergeFailed", "success"}

\* The serialization serde derives for JobStatus (lines 12-13, 23-26).  A
\* variant's name, as its words.
VariantName ==
    [queued |-> <<"Queued">>, wrongProtocol |-> <<"Wrong", "Protocol">>,
     tagFailed |-> <<"Tag", "Failed">>, imageForbidden |-> <<"Image", "Forbidden">>,
     pullFailed |-> <<"Pull", "Failed">>, discoverFailed |-> <<"Discover", "Failed">>,
     mergeFailed |-> <<"Merge", "Failed">>, success |-> <<"Success">>]
LowerFirst ==
    [Queued |-> "queued", Wrong |-> "wrong", Tag |-> "tag", Image |-> "image",
     Pull |-> "pull", Discover |-> "discover", Merge |-> "merge",
     Success |-> "success"]
RECURSIVE Concat(_)
Concat(words) == IF words = <<>> THEN "" ELSE Head(words) \o Concat(Tail(words))
\* rename_all = "camelCase" of an enum renames its variants (and not the
\* fields of a variant): the first letter becomes lower-case.
camelCase(words) == LowerFirst[Head(words)] \o Concat(Tail(words))

\* Mutant of Serialize: no field is skipped.
SerializeEveryField(status) ==
    IF status.type # "success" THEN ("type" :> camelCase(VariantName[status.type]))
    ELSE ("publication_id" :> status.publication_id)
         @@ ("specs_unchanged" :> status.specs_unchanged)
         @@ ("type" :> camelCase(VariantName[status.type]))

\* tag = "type": the variant's name under "type", then the fields of the
\* variant under their own names, but those skip_serializing_if skips.
Serialize(status) ==
    LET tagged == ("type" :> camelCase(VariantName[status.type]))
    IN  IF status.type # "success" THEN tagged
        ELSE LET with_id ==
                    IF status.publication_id.some
                    THEN ("publication_id" :> status.publication_id.v) @@ tagged
                    ELSE tagged
             IN  IF status.specs_unchanged
                 THEN ("specs_unchanged" :> TRUE) @@ with_id
                 ELSE with_id

\* The deserialization serde derives for JobStatus (line 12): the variant is
\* the one whose renamed name is under "type".  A field of Success that is
\* absent is None when its type is an Option; no field has a default
\* attribute, so an absent specs_unchanged (a bool) is an error.
MissingField(field) == [ok |-> FALSE, error |-> <<"missing field", field>>]
UnknownVariant == [ok |-> FALSE, error |-> <<"unknown variant">>]
Deserialize(json) ==
    LET variants == {t \in DOMAIN VariantName : camelCase(VariantName[t]) = json["type"]}
    IN  IF "type" \notin DOMAIN json THEN MissingField("type")
        ELSE IF variants = {} THEN UnknownVariant
        ELSE IF json["type"] # "success" THEN [ok |-> TRUE, v |-> [type |-> json["type"]]]
        ELSE IF "specs_unchanged" \notin DOMAIN json THEN MissingField("specs_unchanged")
        ELSE [ok |-> TRUE,
              v |-> Success(IF "publication_id" \in DOMAIN json
                            THEN Some(json["publication_id"]) ELSE None,
                            json["specs_unchanged"])]

\* ------------------------------------------------------------------ names
\* A catalog name is a prefix and a final component: the target of a new
\* binding is the capture's prefix joined with the recommended name.
Name(prefix, leaf) == [prefix |-> prefix, leaf |-> leaf]
Prefixes == {"aliceCo/dir"}
CaptureNames == {Name("aliceCo/dir", "source-thingy")}
Resources == {"foo", "bar", "quz"}
CollectionNames == {Name(p, r) : p \in Prefixes, r \in Resources \cup {"other"}}
Names == CaptureNames \cup CollectionNames

Drafts == {"d1", "d2"}
Users == {"u1"}

\* The connectors table: the images that are registered.
RegisteredImages == {"ghcr.io/estuary/source-thingy"}
ImageNames == RegisteredImages \cup {"docker.io/evil/image"}
LOCAL_IMAGE_TAG == ":local"
ImageTags == {LOCAL_IMAGE_TAG, ":v1"}
Protocols == {"capture", "materialization"}

\* ------------------------------------------------------------- JSON values
\* A stored spec is a JSON document.  Arrays and strings are tagged, so that
\* decoding can tell a sequence from a string.
JArr(seq) == [t |-> "arr", v |-> seq]
JStr(str) == [t |-> "str", v |-> <<str>>]
JEmptyObj == [t |-> "obj", v |-> <<>>]

\* No row for a name (in draft_specs or in live_specs).
NoSpec == [spec_type |-> "none"]

\* The endpoint descriptor a discover yields: the composed image and the
\* row's endpoint configuration (opaque).
EndpointConfig == "endpoint-config"
Endpoint(image_name, image_tag) ==
    [image |-> [name |-> image_name, tag |-> image_tag], config |-> EndpointConfig]

\* One resource reported by the connector.
DiscoveredBinding(resource, schema) ==
    [recommendedName |-> resource,
     key |-> <<resource>>,
     documentSchema |-> schema,
     resourceConfig |-> [table |-> resource]]

\* The stored (JSON) form of a capture and of a collection.
RawCapture(bindings, endpoint, interval) ==
    [spec_type |-> "capture", bindings |-> JArr(bindings),
     endpoint |-> endpoint, interval |-> interval]
RawCollection(key, schema) ==
    [spec_type |-> "collection", key |-> JArr(key), schema |-> schema]

\* ------------------------------------------------- draft::extend_catalog
\* Decoding of one resolved spec into its typed form: the capture's
\* bindings and the collection's key must be sequences.
DecodeOk(spec_type, raw) ==
    IF spec_type = "capture" THEN raw.bindings.t = "arr" ELSE raw.key.t = "arr"

Decode(spec_type, raw) ==
    IF spec_type = "capture"
    THEN [f \in DOMAIN raw \ {"spec_type"} |->
            IF f = "bindings" THEN raw.bindings.v ELSE raw[f]]
    ELSE [f \in DOMAIN raw \ {"spec_type"} |->
            IF f = "key" THEN raw.key.v ELSE raw[f]]

\* Serialization of a typed spec back into its stored form (upsert_specs).
Encode(spec_type, typed) ==
    [f \in DOMAIN typed \cup {"spec_type"} |->
        IF f = "spec_type" THEN spec_type
        ELSE IF spec_type = "capture" /\ f = "bindings" THEN JArr(typed.bindings)
        ELSE IF spec_type = "collection" /\ f = "key" THEN JArr(typed.key)
        ELSE typed[f]]

DraftError(catalog_name, detail) ==
    [catalog_name |-> catalog_name, scope |-> None, detail |-> detail]

ParseErrorDetail == "parsing spec: invalid type, expected a sequence"

\* Mutant of EmptyCatalog: the catalog an attempt starts from is what an
\* earlier attempt left, a capture and a collection of another name.
LeftoverCatalog ==
    [captures |->
        (Name("aliceCo/dir", "source-other") :>
            [bindings |-> <<>>, endpoint |-> "leftover", interval |-> "1h"]),
     collections |->
        (Name("aliceCo/dir", "leftover") :> [key |-> <<"id">>, schema |-> "s1"])]
\* models::Catalog::default() (line 252).
EmptyCatalog == [captures |-> <<>>, collections |-> <<>>]

\* resolved: a sequence of [catalog_name, spec_type, spec].  Every spec is
\* decoded; the ones that decode are put into the catalog, each of the
\* others gives one error.
RECURSIVE extend_specs(_, _)
extend_specs(resolved, acc) ==
    IF resolved = <<>> THEN acc
    ELSE LET r == Head(resolved)
         IN  extend_specs(Tail(resolved),
                IF DecodeOk(r.spec_type, r.spec)
                THEN (r.catalog_name :> Decode(r.spec_type, r.spec)) @@ acc
                ELSE acc)

\* Mutant of extend_errors: the decoding stops at the first spec that does
\* not decode.
RECURSIVE extend_errors_first(_)
extend_errors_first(resolved) ==
    IF resolved = <<>> THEN <<>>
    ELSE LET r == Head(resolved)
         IN  IF DecodeOk(r.spec_type, r.spec) THEN extend_errors_first(Tail(resolved))
             ELSE <<DraftError(r.catalog_name, ParseErrorDetail)>>

RECURSIVE extend_errors(_)
extend_errors(resolved) ==
    IF resolved = <<>> THEN <<>>
    ELSE LET r == Head(resolved)
         IN  (IF DecodeOk(r.spec_type, r.spec) THEN <<>>
              ELSE <<DraftError(r.catalog_name, ParseErrorDetail)>>)
             \o extend_errors(Tail(resolved))

\* Returns the extended catalog and the errors.
extend_catalog(catalog, spec_type, resolved) ==
    [catalog |->
        IF spec_type = "capture"
        THEN [catalog EXCEPT !.captures = extend_specs(resolved, @)]
        ELSE [catalog EXCEPT !.collections = extend_specs(resolved, @)],
     errors |-> extend_errors(resolved)]

spec_count(catalog) ==
    Cardinality(DOMAIN catalog.captures) + Cardinality(DOMAIN catalog.collections)

\* ------------------------------------------------- specs::parse_response
\* The output of a discover process: a discovery response (JSON with a
\* list of bindings), or bytes that are no discovery response.
Response(bindings) == [kind |-> "response", bindings |-> bindings]
TextOutput == [kind |-> "text", text |-> "connector failed"]
BinaryOutput == [kind |-> "binary"]

ParseOk(discover_output) == discover_output.kind = "response"

parse_response(image_name, image_tag, discover_output) ==
    [endpoint |-> Endpoint(image_name, image_tag),
     bindings |-> discover_output.bindings]

\* ------------------------------- agent_sql::resolve_merge_target_specs
\* Mutant of ResolveOne: the live spec is preferred to the draft's.
ResolveOneLiveFirst(name, spec_type, drafted, live) ==
    IF live[name].spec_type = spec_type THEN live[name]
    ELSE IF drafted[name].spec_type = spec_type THEN drafted[name]
    ELSE NoSpec

\* The effective spec of a name: the draft's when the draft holds one of
\* the asked type, else the live one, else none.
ResolveOne(name, spec_type, drafted, live) ==
    IF drafted[name].spec_type = spec_type THEN drafted[name]
    ELSE IF live[name].spec_type = spec_type THEN live[name]
    ELSE NoSpec

RECURSIVE resolve_merge_target_specs(_, _, _, _)
resolve_merge_target_specs(names, spec_type, drafted, live) ==
    IF names = <<>> THEN <<>>
    ELSE LET spec == ResolveOne(Head(names), spec_type, drafted, live)
         IN  (IF spec = NoSpec THEN <<>>
              ELSE <<[catalog_name |-> Head(names), spec_type |-> spec_type,
                      spec |-> spec]>>)
             \o resolve_merge_target_specs(Tail(names), spec_type, drafted, live)

\* ----------------------------------------------------- specs::merge_capture
\* The connector's resource path pointers (connector_tags), as the fields
\* of a resource configuration that identify the resource.
ResourcePathPointers == {"table"}

HasIdentity(resource, pointers) == pointers \subseteq DOMAIN resource
Identity(resource, pointers) == [p \in pointers |-> resource[p]]

\* The index of the first existing binding with the identity of `resource`,
\* or 0.
MatchIndex(resource, existing, pointers) ==
    LET hits == {i \in 1..Len(existing) :
                    /\ HasIdentity(existing[i].resource, pointers)
                    /\ Identity(existing[i].resource, pointers)
                         = Identity(resource, pointers)}
    IN  IF hits = {} THEN 0 ELSE CHOOSE i \in hits : \A k \in hits : i <= k

\* Mutant of MergeBinding: the discovered resource configuration replaces the
\* existing one.
MergeBindingOverwrites(existing_binding, discovered) ==
    [existing_binding EXCEPT !.resource = discovered.resourceConfig]

\* A matched binding: the existing resource configuration, with the fields
\* discovery reports updated; the existing target.
MergeBinding(existing_binding, discovered) ==
    [existing_binding EXCEPT !.resource =
        [f \in DOMAIN @ \cup DOMAIN discovered.resourceConfig |->
            IF f \in DOMAIN discovered.resourceConfig
            THEN discovered.resourceConfig[f] ELSE @[f]]]

NewBinding(prefix, discovered) ==
    [resource |-> discovered.resourceConfig,
     target |-> Name(prefix, discovered.recommendedName)]

\* Mutant of merge_bindings: a resource that matches no binding is added
\* whatever update_only says.
RECURSIVE merge_bindings_grows(_, _, _, _, _, _)
merge_bindings_grows(prefix, discovered, existing, update_only, pointers, acc) ==
    IF discovered = <<>> THEN acc
    ELSE LET d == Head(discovered)
             i == MatchIndex(d.resourceConfig, existing, pointers)
             b == IF i # 0 THEN MergeBinding(existing[i], d) ELSE NewBinding(prefix, d)
         IN  merge_bindings_grows(prefix, Tail(discovered), existing, update_only,
                                  pointers,
                                  [bindings |-> Append(acc.bindings, b),
                                   filtered |-> Append(acc.filtered, d)])

\* Mutant of merge_bindings: a resource that matches no binding is dropped
\* whatever update_only says.
RECURSIVE merge_bindings_adds_none(_, _, _, _, _, _)
merge_bindings_adds_none(prefix, discovered, existing, update_only, pointers, acc) ==
    IF discovered = <<>> THEN acc
    ELSE LET d == Head(discovered)
             i == MatchIndex(d.resourceConfig, existing, pointers)
             next ==
                IF i # 0
                THEN [bindings |-> Append(acc.bindings, MergeBinding(existing[i], d)),
                      filtered |-> Append(acc.filtered, d)]
                ELSE acc
         IN  merge_bindings_adds_none(prefix, Tail(discovered), existing, update_only,
                                      pointers, next)

\* Folds the discovered bindings, in order, into the merged bindings and the
\* filtered discovered bindings.
RECURSIVE merge_bindings(_, _, _, _, _, _)
merge_bindings(prefix, discovered, existing, update_only, pointers, acc) ==
    IF discovered = <<>> THEN acc
    ELSE LET d == Head(discovered)
             i == MatchIndex(d.resourceConfig, existing, pointers)
             next ==
                IF i # 0
                THEN [bindings |-> Append(acc.bindings, MergeBinding(existing[i], d)),
                      filtered |-> Append(acc.filtered, d)]
                ELSE IF update_only THEN acc
                ELSE [bindings |-> Append(acc.bindings, NewBinding(prefix, d)),
                      filtered |-> Append(acc.filtered, d)]
         IN  merge_bindings(prefix, Tail(discovered), existing, update_only,
                            pointers, next)

DefaultInterval == "5m"
InvalidResourceDetail == "resource cannot be evaluated against the resource path pointers"

\* Mutant of merge_capture: a resource that cannot be evaluated against the
\* pointers is skipped.
merge_capture_skips(capture_name, endpoint, discovered, fetched_capture, update_only, pointers) ==
    LET existing == IF fetched_capture.some THEN fetched_capture.v.bindings ELSE <<>>
        merged == merge_bindings(capture_name.prefix,
                                 SelectSeq(discovered,
                                           LAMBDA d : HasIdentity(d.resourceConfig, pointers)),
                                 existing, update_only, pointers,
                                 [bindings |-> <<>>, filtered |-> <<>>])
    IN  [ok |-> TRUE,
         capture |->
           [bindings |-> merged.bindings,
            endpoint |-> endpoint,
            interval |-> IF fetched_capture.some THEN fetched_capture.v.interval
                         ELSE DefaultInterval],
         discovered |-> merged.filtered]

\* fetched_capture: None or Some(typed capture).
merge_capture(capture_name, endpoint, discovered, fetched_capture, update_only, pointers) ==
    IF \E i \in 1..Len(discovered) : ~HasIdentity(discovered[i].resourceConfig, pointers)
    THEN [ok |-> FALSE, error |-> InvalidResourceDetail]
    ELSE LET existing == IF fetched_capture.some THEN fetched_capture.v.bindings ELSE <<>>
             merged == merge_bindings(capture_name.prefix, discovered, existing,
                                      update_only, pointers,
                                      [bindings |-> <<>>, filtered |-> <<>>])
         IN  [ok |-> TRUE,
              capture |->
                [bindings |-> merged.bindings,
                 endpoint |-> endpoint,
                 interval |-> IF fetched_capture.some THEN fetched_capture.v.interval
                              ELSE DefaultInterval],
              discovered |-> merged.filtered]

\* ------------------------------------------------- specs::merge_collections
NewCollection(binding) == [key |-> binding.key, schema |-> binding.documentSchema]

\* Mutant of MergeCollection: the existing collection is replaced by a new
\* one.
MergeCollectionReplaces(binding, existing) == NewCollection(binding)

\* An existing collection keeps all its fields but the key and the schema
\* (the write schema, when it has a read and a write schema).
MergeCollection(binding, existing) ==
    IF "writeSchema" \in DOMAIN existing
    THEN [existing EXCEPT !.key = binding.key, !.writeSchema = binding.documentSchema]
    ELSE [f \in DOMAIN existing \cup {"key", "schema"} |->
            IF f = "key" THEN binding.key
            ELSE IF f = "schema" THEN binding.documentSchema
            ELSE existing[f]]


RECURSIVE merge_collections(_, _, _)
merge_collections(discovered, collections, targets) ==
    IF discovered = <<>> \/ targets = <<>> THEN collections
    ELSE LET t == Head(targets)
             c == IF t \in DOMAIN collections
                  THEN MergeCollection(Head(discovered), collections[t])
                  ELSE NewCollection(Head(discovered))
         IN  merge_collections(Tail(discovered),
                               (t :> c) @@ collections, Tail(targets))

\* --------------------------------------------- build_merged_catalog
\* Mutant of build_merged_capture: the endpoint of the merged capture carries
\* the id of the job.
build_merged_capture_per_job(row, discover_output, drafted, live) ==
    LET parsed == parse_response(row.image_name, row.image_tag, discover_output)
        resolved == resolve_merge_target_specs(<<row.capture_name>>, "capture",
                                               drafted, live)
        ext == extend_catalog(EmptyCatalog, "capture", resolved)
        fetched == IF row.capture_name \in DOMAIN ext.catalog.captures
                   THEN Some(ext.catalog.captures[row.capture_name]) ELSE None
        merge_result == merge_capture(row.capture_name,
                                      [parsed.endpoint EXCEPT !.config = <<@, row.id>>],
                                      parsed.bindings,
                                      fetched, row.update_only, ResourcePathPointers)
    IN  IF ext.errors # <<>>
        THEN [ok |-> FALSE, errors |-> ext.errors, steps |-> <<"resolve_capture">>]
        ELSE IF ~merge_result.ok
        THEN [ok |-> FALSE,
              errors |-> <<DraftError(row.capture_name, merge_result.error)>>,
              steps |-> <<"resolve_capture", "merge_capture">>]
        ELSE [ok |-> TRUE,
              catalog |-> [ext.catalog EXCEPT
                             !.captures = (row.capture_name :> merge_result.capture) @@ @],
              targets |-> [i \in 1..Len(merge_result.capture.bindings) |->
                              merge_result.capture.bindings[i].target],
              discovered |-> merge_result.discovered]

\* Mutant of build_merged_capture: the names to resolve are derived from the
\* discovered bindings, before the merge.
build_merged_capture_discovered_names(row, discover_output, drafted, live) ==
    LET parsed == parse_response(row.image_name, row.image_tag, discover_output)
        resolved == resolve_merge_target_specs(<<row.capture_name>>, "capture",
                                               drafted, live)
        ext == extend_catalog(EmptyCatalog, "capture", resolved)
        fetched == IF row.capture_name \in DOMAIN ext.catalog.captures
                   THEN Some(ext.catalog.captures[row.capture_name]) ELSE None
        merge_result == merge_capture(row.capture_name, parsed.endpoint, parsed.bindings,
                                      fetched, row.update_only, ResourcePathPointers)
    IN  IF ext.errors # <<>>
        THEN [ok |-> FALSE, errors |-> ext.errors, steps |-> <<"resolve_capture">>]
        ELSE IF ~merge_result.ok
        THEN [ok |-> FALSE,
              errors |-> <<DraftError(row.capture_name, merge_result.error)>>,
              steps |-> <<"resolve_capture", "merge_capture">>]
        ELSE [ok |-> TRUE,
              catalog |-> [ext.catalog EXCEPT
                             !.captures = (row.capture_name :> merge_result.capture) @@ @],
              targets |-> [i \in 1..Len(parsed.bindings) |->
                              Name(row.capture_name.prefix,
                                   parsed.bindings[i].recommendedName)],
              discovered |-> parsed.bindings]

\* First half: parse the response, resolve and decode the current capture,
\* fetch the resource path pointers, merge the capture.  `drafted` and `live`
\* are the draft_specs (of the row's draft) and live_specs the transaction
\* sees.
build_merged_capture(row, discover_output, drafted, live) ==
    LET parsed == parse_response(row.image_name, row.image_tag, discover_output)
        resolved == resolve_merge_target_specs(<<row.capture_name>>, "capture",
                                               drafted, live)
        ext == extend_catalog(EmptyCatalog, "capture", resolved)
        fetched == IF row.capture_name \in DOMAIN ext.catalog.captures
                   THEN Some(ext.catalog.captures[row.capture_name]) ELSE None
        merge_result == merge_capture(row.capture_name, parsed.endpoint, parsed.bindings,
                                      fetched, row.update_only, ResourcePathPointers)
    IN  IF ext.errors # <<>>
        THEN [ok |-> FALSE, errors |-> ext.errors, steps |-> <<"resolve_capture">>]
        ELSE IF ~merge_result.ok
        THEN [ok |-> FALSE,
              errors |-> <<DraftError(row.capture_name, merge_result.error)>>,
              steps |-> <<"resolve_capture", "merge_capture">>]
        ELSE [ok |-> TRUE,
              catalog |-> [ext.catalog EXCEPT
                             !.captures = (row.capture_name :> merge_result.capture) @@ @],
              targets |-> [i \in 1..Len(merge_result.capture.bindings) |->
                              merge_result.capture.bindings[i].target],
              discovered |-> merge_result.discovered]

\* Mutant of build_merged_collections: the specs that decode are merged and
\* returned, whatever the errors.
build_merged_collections_partial(merged, drafted, live) ==
    LET resolved == resolve_merge_target_specs(merged.targets, "collection",
                                               drafted, live)
        ext == extend_catalog(merged.catalog, "collection", resolved)
    IN  [ok |-> TRUE,
         catalog |-> [ext.catalog EXCEPT !.collections =
                        merge_collections(merged.discovered, @, merged.targets)]]

\* Second half: resolve and decode the targeted collections, merge them.
build_merged_collections(merged, drafted, live) ==
    LET resolved == resolve_merge_target_specs(merged.targets, "collection",
                                               drafted, live)
        ext == extend_catalog(merged.catalog, "collection", resolved)
    IN  IF ext.errors # <<>> THEN [ok |-> FALSE, errors |-> ext.errors]
        ELSE [ok |-> TRUE,
              catalog |-> [ext.catalog EXCEPT !.collections =
                            merge_collections(merged.discovered, @, merged.targets)]]

\* The stored form of every spec of a catalog, by name.
CatalogNames(catalog) == DOMAIN catalog.captures \cup DOMAIN catalog.collections
CatalogSpec(catalog, name) ==
    IF name \in DOMAIN catalog.captures
    THEN Encode("capture", catalog.captures[name])
    ELSE Encode("collection", catalog.collections[name])

\* ------------------------------------------------------------ json_ext/ptr.rs
\* A JSON value (serde_json::Value): null, a scalar, an array of values, or
\* an object, a function from property names to values.  Texts (pointers,
\* property names) are sequences of characters.
Null == [t |-> "null", v |-> <<>>]
Scalar(x) == [t |-> "scalar", v |-> <<x>>]
Array(seq) == [t |-> "arr", v |-> seq]
Object(map) == [t |-> "obj", v |-> map]
\* No call of a Pointer function yet.
NoCall == [op |-> "none"]

\* A token of a pointer (lines 17-28).  The usize of an Index is held as its
\* decimal digits without leading zeros, so that 2^64 - 1 can be written;
\* to_string of it is those digits.
Index(n) == [kind |-> "Index", v |-> n]
Property(prop) == [kind |-> "Property", v |-> prop]
NextIndex == [kind |-> "NextIndex", v |-> <<>>]

DecimalDigits == {"0", "1", "2", "3", "4", "5", "6", "7", "8", "9"}
DigitValue ==
    [d \in DecimalDigits |->
        CASE d = "0" -> 0 [] d = "1" -> 1 [] d = "2" -> 2 [] d = "3" -> 3
          [] d = "4" -> 4 [] d = "5" -> 5 [] d = "6" -> 6 [] d = "7" -> 7
          [] d = "8" -> 8 [] d = "9" -> 9]
\* usize::MAX of a 64-bit build: 18446744073709551615.
UsizeMax ==
    <<"1", "8", "4", "4", "6", "7", "4", "4", "0", "7", "3", "7", "0", "9",
      "5", "5", "1", "6", "1", "5">>

RECURSIVE StripZeros(_)
StripZeros(digits) ==
    IF Len(digits) > 1 /\ Head(digits) = "0" THEN StripZeros(Tail(digits))
    ELSE digits
\* a <= b, for two numbers held as digits without leading zeros.
RECURSIVE DigitsLeq(_, _)
DigitsLeq(a, b) ==
    IF Len(a) # Len(b) THEN Len(a) < Len(b)
    ELSE IF a = <<>> THEN TRUE
    ELSE IF Head(a) # Head(b) THEN DigitValue[Head(a)] < DigitValue[Head(b)]
    ELSE DigitsLeq(Tail(a), Tail(b))

\* usize::from_str: an optional '+', then one decimal digit or more, of a
\* number that is at most usize::MAX.
usize_from_str(t) ==
    LET digits == IF t # <<>> /\ Head(t) = "+" THEN Tail(t) ELSE t
    IN  IF digits = <<>> \/ \E i \in 1..Len(digits) : digits[i] \notin DecimalDigits
        THEN [ok |-> FALSE]
        ELSE IF ~DigitsLeq(StripZeros(digits), UsizeMax) THEN [ok |-> FALSE]
        ELSE [ok |-> TRUE, v |-> StripZeros(digits)]

\* str::split('/'): the pieces between the separators.
RECURSIVE split(_, _, _)
split(s, piece, pieces) ==
    IF s = <<>> THEN Append(pieces, piece)
    ELSE IF Head(s) = "/" THEN split(Tail(s), <<>>, Append(pieces, piece))
    ELSE split(Tail(s), Append(piece, Head(s)), pieces)

\* str::replace of a pattern of two characters by one character: every
\* match, from the left, without overlap.
RECURSIVE replace(_, _, _)
replace(t, from, to) ==
    IF Len(t) < 2 THEN t
    ELSE IF t[1] = from[1] /\ t[2] = from[2]
    THEN <<to>> \o replace(SubSeq(t, 3, Len(t)), from, to)
    ELSE <<t[1]>> \o replace(Tail(t), from, to)

\* The tape of a pointer (lines 39-71): a control code per token, then the
\* index as a varint, or the length of the property as a varint and its
\* bytes.  A varint is one item of the tape here.
VarInt(n) == [varint |-> n]
push(tape, token) ==
    IF token.kind = "Index" THEN tape \o <<"I", VarInt(token.v)>>
    ELSE IF token.kind = "Property"
    THEN tape \o <<"P", VarInt(Len(token.v))>> \o token.v
    ELSE Append(tape, "-")

\* Mutant of token_of: a decimal with a leading zero is an index.
token_of_lenient(t) ==
    IF t = <<"-">> THEN NextIndex
    ELSE IF t # <<>> /\ Head(t) = "+" THEN Property(t)
    ELSE IF usize_from_str(t).ok THEN Index(usize_from_str(t).v)
    ELSE Property(t)

\* Lines 90-100: the token of an unescaped piece.
token_of(t) ==
    IF t = <<"-">> THEN NextIndex
    ELSE IF t # <<>> /\ Head(t) = "+" THEN Property(t)
    ELSE IF t # <<>> /\ Head(t) = "0" /\ Len(t) > 1 THEN Property(t)
    ELSE IF usize_from_str(t).ok THEN Index(usize_from_str(t).v)
    ELSE Property(t)

RECURSIVE push_all(_, _)
push_all(tape, pieces) ==
    IF pieces = <<>> THEN tape
    ELSE push_all(push(tape,
                       token_of(replace(replace(Head(pieces), <<"~", "1">>, "/"),
                                        <<"~", "0">>, "~"))),
                  Tail(pieces))

\* Pointer::try_from (lines 77-104): the tape, or the error.
try_from(s) ==
    IF s = <<>> THEN [ok |-> TRUE, tape |-> <<>>]
    ELSE IF Head(s) # "/" THEN [ok |-> FALSE, error |-> "NotRooted"]
    ELSE [ok |-> TRUE, tape |-> push_all(<<>>, Tail(split(s, <<>>, <<>>)))]

\* Iter::next (lines 110-134), repeated to the end of the tape.
RECURSIVE iter(_)
iter(tape) ==
    IF tape = <<>> THEN <<>>
    ELSE IF tape[1] = "-" THEN <<NextIndex>> \o iter(Tail(tape))
    ELSE IF tape[1] = "P"
    THEN LET prop_len == tape[2].varint
         IN  <<Property(SubSeq(tape, 3, 2 + prop_len))>>
             \o iter(SubSeq(tape, 3 + prop_len, Len(tape)))
    ELSE <<Index(tape[2].varint)>> \o iter(SubSeq(tape, 3, Len(tape)))

\* The number held as digits, when it is below 1000 (no array of the model
\* is that long).
RECURSIVE ToNat(_, _)
ToNat(digits, acc) ==
    IF digits = <<>> THEN acc
    ELSE ToNat(Tail(digits), 10 * acc + DigitValue[Head(digits)])
IndexBelow(n, len) == Len(n) <= 3 /\ ToNat(n, 0) < len

\* The property name a token stands for in an object (lines 149-151,
\* 195-197).
PropertyName(token) == IF token.kind = "NextIndex" THEN <<"-">> ELSE token.v

\* Mutant of query_tokens: an index is no property name.
RECURSIVE query_strict(_, _)
query_strict(tokens, v) ==
    IF tokens = <<>> THEN Some(v)
    ELSE LET token == Head(tokens)
             next ==
                IF v.t = "obj"
                THEN IF token.kind = "Property" /\ token.v \in DOMAIN v.v
                     THEN Some(v.v[token.v]) ELSE None
                ELSE IF v.t = "arr"
                THEN IF token.kind = "Index" /\ IndexBelow(token.v, Len(v.v))
                     THEN Some(v.v[ToNat(token.v, 0) + 1]) ELSE None
                ELSE None
         IN  IF next.some THEN query_strict(Tail(tokens), next.v) ELSE None

\* Pointer::query (lines 141-166), on the tokens of the pointer.
RECURSIVE query_tokens(_, _)
query_tokens(tokens, v) ==
    IF tokens = <<>> THEN Some(v)
    ELSE LET token == Head(tokens)
             next ==
                IF v.t = "obj"
                THEN IF PropertyName(token) \in DOMAIN v.v
                     THEN Some(v.v[PropertyName(token)]) ELSE None
                ELSE IF v.t = "arr"
                THEN IF token.kind = "Index" /\ IndexBelow(token.v, Len(v.v))
                     THEN Some(v.v[ToNat(token.v, 0) + 1]) ELSE None
                ELSE None
         IN  IF next.some THEN query_tokens(Tail(tokens), next.v) ELSE None

Nulls(n) == [i \in 1..n |-> Null]

\* Mutant of create_tokens: an array is not extended; an index past its end
\* gives None.
RECURSIVE create_no_extend(_, _, _)
create_no_extend(tokens, v, swap_in) ==
    IF tokens = <<>>
    THEN [ret |-> "some", v |-> IF swap_in.some THEN swap_in.v ELSE v]
    ELSE LET token == Head(tokens)
             inst == IF v.t # "null" THEN v
                     ELSE IF token.kind = "Property" THEN Object(<<>>)
                     ELSE Array(<<>>)
         IN  IF inst.t = "obj"
             THEN LET key == PropertyName(token)
                      child == IF key \in DOMAIN inst.v THEN inst.v[key] ELSE Null
                      r == create_no_extend(Tail(tokens), child, swap_in)
                  IN  [ret |-> r.ret, v |-> Object((key :> r.v) @@ inst.v)]
             ELSE IF inst.t = "arr" /\ token.kind = "Index"
                     /\ IndexBelow(token.v, Len(inst.v))
             THEN LET at == ToNat(token.v, 0) + 1
                      r == create_no_extend(Tail(tokens), inst.v[at], swap_in)
                  IN  [ret |-> r.ret, v |-> Array([inst.v EXCEPT ![at] = r.v])]
             ELSE IF inst.t = "arr" /\ token.kind = "NextIndex"
             THEN LET r == create_no_extend(Tail(tokens), Null, swap_in)
                  IN  [ret |-> r.ret, v |-> Array(Append(inst.v, r.v))]
             ELSE [ret |-> "none", v |-> inst]

\* Mutant of create_tokens: an array addressed by a property gets a Null
\* appended before None is returned.
RECURSIVE create_appends_then_none(_, _, _)
create_appends_then_none(tokens, v, swap_in) ==
    IF tokens = <<>>
    THEN [ret |-> "some", v |-> IF swap_in.some THEN swap_in.v ELSE v]
    ELSE LET token == Head(tokens)
             inst == IF v.t # "null" THEN v
                     ELSE IF token.kind = "Property" THEN Object(<<>>)
                     ELSE Array(<<>>)
         IN  IF inst.t = "obj"
             THEN LET key == PropertyName(token)
                      child == IF key \in DOMAIN inst.v THEN inst.v[key] ELSE Null
                      r == create_appends_then_none(Tail(tokens), child, swap_in)
                  IN  [ret |-> r.ret, v |-> Object((key :> r.v) @@ inst.v)]
             ELSE IF inst.t = "arr" /\ token.kind = "Index"
             THEN IF ~IndexBelow(token.v, Len(inst.v)) /\ token.v = UsizeMax
                  THEN [ret |-> "panic", v |-> inst]
                  ELSE LET at == ToNat(token.v, 0) + 1
                           arr == IF at > Len(inst.v)
                                  THEN inst.v \o Nulls(at - Len(inst.v))
                                  ELSE inst.v
                           r == create_appends_then_none(Tail(tokens), arr[at], swap_in)
                       IN  [ret |-> r.ret, v |-> Array([arr EXCEPT ![at] = r.v])]
             ELSE IF inst.t = "arr" /\ token.kind = "NextIndex"
             THEN LET r == create_appends_then_none(Tail(tokens), Null, swap_in)
                  IN  [ret |-> r.ret, v |-> Array(Append(inst.v, r.v))]
             ELSE IF inst.t = "arr"
             THEN [ret |-> "none", v |-> Array(Append(inst.v, Null))]
             ELSE [ret |-> "none", v |-> inst]

\* Pointer::create (lines 177-230), on the tokens of the pointer: what it
\* returns ("some": the location, "none", or "panic": it does not return)
\* and the document after it.  swap_in is the value the caller puts at the
\* location (line 384), if it puts one.  1 + ind overflows when ind is
\* usize::MAX (line 205): the debug build panics there, the release build
\* wraps and panics at the unwrap of line 209 or extends the array without
\* end.
RECURSIVE create_tokens(_, _, _)
create_tokens(tokens, v, swap_in) ==
    IF tokens = <<>>
    THEN [ret |-> "some", v |-> IF swap_in.some THEN swap_in.v ELSE v]
    ELSE LET token == Head(tokens)
             inst == IF v.t # "null" THEN v
                     ELSE IF token.kind = "Property" THEN Object(<<>>)
                     ELSE Array(<<>>)
         IN  IF inst.t = "obj"
             THEN LET key == PropertyName(token)
                      child == IF key \in DOMAIN inst.v THEN inst.v[key] ELSE Null
                      r == create_tokens(Tail(tokens), child, swap_in)
                  IN  [ret |-> r.ret, v |-> Object((key :> r.v) @@ inst.v)]
             ELSE IF inst.t = "arr" /\ token.kind = "Index"
             THEN IF ~IndexBelow(token.v, Len(inst.v)) /\ token.v = UsizeMax
                  THEN [ret |-> "panic", v |-> inst]
                  ELSE LET at == ToNat(token.v, 0) + 1
                           arr == IF at > Len(inst.v)
                                  THEN inst.v \o Nulls(at - Len(inst.v))
                                  ELSE inst.v
                           r == create_tokens(Tail(tokens), arr[at], swap_in)
                       IN  [ret |-> r.ret, v |-> Array([arr EXCEPT ![at] = r.v])]
             ELSE IF inst.t = "arr" /\ token.kind = "NextIndex"
             THEN LET r == create_tokens(Tail(tokens), Null, swap_in)
                  IN  [ret |-> r.ret, v |-> Array(Append(inst.v, r.v))]
             ELSE [ret |-> "none", v |-> inst]

\* The number of values in a document.
RECURSIVE NodeCount(_)
RECURSIVE NodeSum(_)
NodeSum(values) ==
    IF values = <<>> THEN 0 ELSE NodeCount(Head(values)) + NodeSum(Tail(values))
RECURSIVE NodeSumOver(_, _)
NodeSumOver(map, keys) ==
    IF keys = {} THEN 0
    ELSE LET k == CHOOSE x \in keys : TRUE
         IN  NodeCount(map[k]) + NodeSumOver(map, keys \ {k})
NodeCount(v) ==
    IF v.t = "arr" THEN 1 + NodeSum(v.v)
    ELSE IF v.t = "obj" THEN 1 + NodeSumOver(v.v, DOMAIN v.v)
    ELSE 1

\* ------------------------------------------------------------------ state
VARIABLES
    rows,          \* discovers: the immutable fields of each job row
    job_status,    \* discovers.job_status, committed
    draft_specs,   \* draft_specs, committed: draft -> name -> stored spec
    draft_errors,  \* draft_errors, committed: draft -> set of rows
    live_specs,    \* live_specs: name -> stored spec
    publications,  \* publications, committed: set of rows
    row_locks,     \* the row locks on discovers: the worker holding each row, or 0
    wk,            \* each worker: its place in handle(), its transaction, its locals
    doc,           \* json_ext: the document a pointer is applied to
    ret            \* json_ext: the last call of a Pointer function and its result

database == <<rows, job_status, draft_specs, draft_errors, live_specs, publications>>
json_ext == <<doc, ret>>
vars == <<database, row_locks, wk, json_ext>>

\* A transaction's write overlay: nothing written.
Untouched == [spec_type |-> "untouched"]
EmptyTxn ==
    [status |-> None,
     errors_deleted |-> {},
     errors_inserted |-> {},
     specs |-> [n \in Names |-> Untouched],
     publication |-> None]

NoJob == 0
IdleWorker ==
    [pc |-> "idle", job |-> NoJob, txn |-> EmptyTxn, last |-> "none",
     error |-> "none", logs |-> None,
     status |-> None, output |-> None, merged |-> None, catalog |-> None,
     drafted_spec_count |-> 0, pruned |-> {}, steps |-> <<>>]

\* What the transaction of worker w sees.
TxnDraftSpecs(w, draft) ==
    [n \in Names |-> IF wk[w].txn.specs[n] # Untouched THEN wk[w].txn.specs[n]
                     ELSE draft_specs[draft][n]]
TxnDraftErrors(w, draft) ==
    (draft_errors[draft] \ wk[w].txn.errors_deleted) \cup wk[w].txn.errors_inserted

\* The row a worker dequeued.  `last` is "Err" when the worker's last
\* handle() returned an error, and "none" otherwise (it returned Ok, has not
\* returned yet, or the worker is inside handle()).  `error` is the context of
\* the error process() raised, if it did.  `logs` is what the discover
\* process of the attempt streamed to the log sink under the row's
\* logs_token.
Row(w) == rows[wk[w].job]
NoWorker == 0
Locked(j) == row_locks[j] # NoWorker

\* A row another open transaction has deleted or written is locked until
\* that transaction ends: a statement that would delete or write it waits.
ErrorsLockedByOthers(w, draft) ==
    UNION {wk[x].txn.errors_deleted :
             x \in {y \in Workers \ {w} : wk[y].job # NoJob /\ rows[wk[y].job].draft_id = draft}}
SpecsLockedByOthers(w, draft) ==
    {n \in Names :
        \E x \in Workers \ {w} :
            /\ wk[x].job # NoJob
            /\ rows[wk[x].job].draft_id = draft
            /\ wk[x].txn.specs[n] # Untouched}

\* The end of a transaction, by commit or by rollback, releases its locks.
Released(w) == [j \in JobIds |-> IF row_locks[j] = w THEN NoWorker ELSE row_locks[j]]

\* ------------------------------------------------------------ handle()
\* agent_sql::discovers::dequeue: a locking read of one queued row that
\* skips the rows another transaction has locked.
Eligible(j) == job_status[j] = Queued /\ ~Locked(j)

\* Mutant of Dequeue: the dequeue runs in a transaction of its own (on the
\* pool), so the row lock is gone when it returns.
DequeueOutsideTxn(w) ==
    /\ wk[w].pc = "idle"
    /\ \/ \E j \in JobIds :
            /\ Eligible(j)
            /\ wk' = [wk EXCEPT ![w] = [IdleWorker EXCEPT !.pc = "preflight", !.job = j]]
       \/ /\ ~\E j \in JobIds : Eligible(j)
          /\ wk' = [wk EXCEPT ![w] = IdleWorker]
    /\ UNCHANGED <<database, row_locks, json_ext>>

\* handle(), lines 50-55: begin a transaction and dequeue.  With a row the
\* worker goes on to process(); with none it returns Idle (and its
\* transaction, which wrote nothing, is dropped).
Dequeue(w) ==
    /\ wk[w].pc = "idle"
    /\ \/ \E j \in JobIds :
            /\ Eligible(j)
            /\ wk' = [wk EXCEPT ![w] = [IdleWorker EXCEPT !.pc = "preflight", !.job = j]]
            /\ row_locks' = [row_locks EXCEPT ![j] = w]
       \/ /\ ~\E j \in JobIds : Eligible(j)
          /\ wk' = [wk EXCEPT ![w] = IdleWorker]
          /\ UNCHANGED row_locks
    /\ UNCHANGED <<database, json_ext>>

does_connector_exist(image_name) == image_name \in RegisteredImages

\* Mutants of preflight: a failed tagging leaves the job queued; the protocol
\* is checked before the tagging; the image before the protocol; the image
\* lookup's answer is dropped.
preflight_requeues(row) ==
    IF ~row.connector_tag_job_success
    THEN [status |-> Some(Queued), steps |-> <<>>]
    ELSE IF row.protocol # "capture"
    THEN [status |-> Some(WrongProtocol), steps |-> <<>>]
    ELSE IF ~does_connector_exist(row.image_name)
    THEN [status |-> Some(ImageForbidden), steps |-> <<"does_connector_exist">>]
    ELSE [status |-> None, steps |-> <<"does_connector_exist">>]

preflight_protocol_first(row) ==
    IF row.protocol # "capture"
    THEN [status |-> Some(WrongProtocol), steps |-> <<>>]
    ELSE IF ~row.connector_tag_job_success
    THEN [status |-> Some(TagFailed), steps |-> <<>>]
    ELSE IF ~does_connector_exist(row.image_name)
    THEN [status |-> Some(ImageForbidden), steps |-> <<"does_connector_exist">>]
    ELSE [status |-> None, steps |-> <<"does_connector_exist">>]

preflight_image_first(row) ==
    IF ~row.connector_tag_job_success
    THEN [status |-> Some(TagFailed), steps |-> <<>>]
    ELSE IF ~does_connector_exist(row.image_name)
    THEN [status |-> Some(ImageForbidden), steps |-> <<"does_connector_exist">>]
    ELSE IF row.protocol # "capture"
    THEN [status |-> Some(WrongProtocol), steps |-> <<"does_connector_exist">>]
    ELSE [status |-> None, steps |-> <<"does_connector_exist">>]

preflight_ignores_lookup(row) ==
    IF ~row.connector_tag_job_success
    THEN [status |-> Some(TagFailed), steps |-> <<>>]
    ELSE IF row.protocol # "capture"
    THEN [status |-> Some(WrongProtocol), steps |-> <<>>]
    ELSE [status |-> None, steps |-> <<"does_connector_exist">>]

\* The pre-flight checks of process() (lines 93-100): the status they return,
\* or None when all pass, and the database lookups they made.
preflight(row) ==
    IF ~row.connector_tag_job_success
    THEN [status |-> Some(TagFailed), steps |-> <<>>]
    ELSE IF row.protocol # "capture"
    THEN [status |-> Some(WrongProtocol), steps |-> <<>>]
    ELSE IF ~does_connector_exist(row.image_name)
    THEN [status |-> Some(ImageForbidden), steps |-> <<"does_connector_exist">>]
    ELSE [status |-> None, steps |-> <<"does_connector_exist">>]

\* process() returned a status: handle() goes on to resolve().
Return(w, status) == [wk[w] EXCEPT !.pc = "resolve", !.status = Some(status)]

\* Mutant of Preflight: the image is pulled whatever its tag.
PreflightAlwaysPulls(w) ==
    /\ wk[w].pc = "preflight"
    /\ LET row == Row(w)
           result == preflight(row)
           me == [wk[w] EXCEPT !.steps = @ \o result.steps]
       IN  wk' = [wk EXCEPT ![w] =
                IF result.status.some
                THEN [me EXCEPT !.pc = "resolve", !.status = result.status]
                ELSE [me EXCEPT !.pc = "pull"]]
    /\ UNCHANGED <<database, row_locks, json_ext>>

\* Lines 93-104.
Preflight(w) ==
    /\ wk[w].pc = "preflight"
    /\ LET row == Row(w)
           result == preflight(row)
           me == [wk[w] EXCEPT !.steps = @ \o result.steps]
       IN  wk' = [wk EXCEPT ![w] =
                IF result.status.some
                THEN [me EXCEPT !.pc = "resolve", !.status = result.status]
                ELSE IF row.image_tag # LOCAL_IMAGE_TAG
                THEN [me EXCEPT !.pc = "pull"]
                ELSE [me EXCEPT !.pc = "delete_errors"]]
    /\ UNCHANGED <<database, row_locks, json_ext>>

\* jobs::run("pull", ...): the process is launched ...
StartPull(w) ==
    /\ wk[w].pc = "pull"
    /\ wk' = [wk EXCEPT ![w].pc = "pulling", ![w].steps = Append(@, "pull")]
    /\ UNCHANGED <<database, row_locks, json_ext>>

\* Mutant of PullExit: the draft errors are deleted before the pull, so a
\* failed pull commits the deletion.
PullExitAfterDelete(w) ==
    /\ wk[w].pc = "pulling"
    /\ \E success \in BOOLEAN :
          wk' = [wk EXCEPT ![w] =
                    IF success THEN [wk[w] EXCEPT !.pc = "delete_errors"]
                    ELSE [Return(w, PullFailed) EXCEPT
                            !.txn.errors_deleted = TxnDraftErrors(w, Row(w).draft_id)]]
    /\ UNCHANGED <<database, row_locks, json_ext>>

\* ... and exits, with success or not.
PullExit(w) ==
    /\ wk[w].pc = "pulling"
    /\ \E success \in BOOLEAN :
          wk' = [wk EXCEPT ![w] =
                    IF success THEN [wk[w] EXCEPT !.pc = "delete_errors"]
                    ELSE Return(w, PullFailed)]
    /\ UNCHANGED <<database, row_locks, json_ext>>

\* drafts::delete_errors, then the launch of the discover process.  The
\* delete waits while another open transaction has deleted one of the rows.
StartDiscover(w) ==
    /\ wk[w].pc = "delete_errors"
    /\ TxnDraftErrors(w, Row(w).draft_id)
         \cap ErrorsLockedByOthers(w, Row(w).draft_id) = {}
    /\ wk' = [wk EXCEPT ![w] =
            [wk[w] EXCEPT !.pc = "discovering",
                          !.txn.errors_deleted = TxnDraftErrors(w, Row(w).draft_id),
                          !.txn.errors_inserted = {},
                          !.steps = @ \o <<"delete_errors", "discover">>]]
    /\ UNCHANGED <<database, row_locks, json_ext>>

\* The outputs a discover process may end with.
Schemas == {"s1", "s2"}
\* The discover output of test_catalog_merge_ok (lines 409-415): foo, bar and
\* quz.  Here foo's resource configuration also reports a field (cursor) that
\* is no part of its identity.
MergeOkOutput ==
    <<[DiscoveredBinding("foo", "s2") EXCEPT
          !.resourceConfig = [table |-> "foo", cursor |-> "new"]],
      DiscoveredBinding("bar", "s1"),
      DiscoveredBinding("quz", "s1")>>
\* A resource configuration without the field the resource path pointers
\* name: merge_capture cannot evaluate it (lines 296-303).
InvalidResourceOutput ==
    <<[DiscoveredBinding("foo", "s1") EXCEPT !.resourceConfig = [stream |-> "foo"]]>>
DiscoveredLists ==
    {<<>>,
     <<DiscoveredBinding("foo", "s1")>>,
     <<DiscoveredBinding("foo", "s2")>>,
     <<DiscoveredBinding("foo", "s1"), DiscoveredBinding("bar", "s1")>>,
     MergeOkOutput,
     InvalidResourceOutput}
\* What a failing process writes to its diagnostic stream.
Diagnostic == "connector failed: exit status 1"
\* The exit of a discover process: its status, the primary output
\* run_with_input_output captured and the diagnostic output it streamed to
\* the log sink.
DiscoverOutcomes ==
    {[success |-> TRUE, output |-> Response(b), diagnostic |-> ""] : b \in DiscoveredLists}
    \cup {[success |-> TRUE, output |-> TextOutput, diagnostic |-> ""]}
    \cup {[success |-> FALSE, output |-> o, diagnostic |-> Diagnostic] :
             o \in {TextOutput, BinaryOutput}}

\* String::from_utf8 of the output.
IsUtf8(output) == output.kind # "binary"
Utf8Text(output) == output.text

\* The rows draft::insert_errors adds for a job.
ErrorRows(job, errors) ==
    {[job |-> job, n |-> i, error |-> errors[i]] : i \in 1..Len(errors)}

\* An error: the transaction is dropped without a commit, handle() returns
\* the error and the worker's next handle() starts afresh.
RolledBack(w) == [wk EXCEPT ![w] = [IdleWorker EXCEPT !.last = "Err"]]

\* process() raises an error of its own (`?` at lines 151 and 249): the error
\* is on its way out of handle(), whose transaction is still open; the
\* worker's only step left is the return of the error (Abort).
NotUtf8 == "discover error output is not UTF-8"
ParseFailed == "converting discovery response into specs"
Failed(w, context) == [wk EXCEPT ![w].pc = "raised", ![w].error = context]

\* The locks after a step of worker w that may have ended its transaction.
LocksAfter(w, wk_after) == IF wk_after[w].pc = "idle" THEN Released(w) ELSE row_locks

\* The exit of the discover process (lines 144-156).
DiscoverExit(w) ==
    /\ wk[w].pc = "discovering"
    /\ \E outcome \in DiscoverOutcomes :
          LET row == Row(w)
              error == DraftError(row.capture_name, Utf8Text(outcome.output))
          IN  wk' =
                IF outcome.success
                THEN [wk EXCEPT ![w].pc = "merge", ![w].output = Some(outcome.output),
                                ![w].logs = Some(outcome.diagnostic)]
                ELSE IF ~IsUtf8(outcome.output) THEN Failed(w, NotUtf8)
                ELSE [wk EXCEPT ![w] =
                        [Return(w, DiscoverFailed) EXCEPT
                            !.output = Some(outcome.output),
                            !.logs = Some(outcome.diagnostic),
                            !.txn.errors_inserted = @ \cup ErrorRows(row.id, <<error>>),
                            !.steps = Append(@, "insert_errors")]]
    /\ row_locks' = LocksAfter(w, wk')
    /\ UNCHANGED <<database, json_ext>>

\* Mutant of MergeFailure: what was merged before the failure is written to
\* the draft.
MergeFailureHalfApplied(w, errors, steps) ==
    [Return(w, MergeFailed) EXCEPT
        !.txn.errors_inserted = @ \cup ErrorRows(Row(w).id, errors),
        !.txn.specs = IF ~wk[w].merged.some THEN @
                      ELSE [n \in Names |->
                              IF n \in CatalogNames(wk[w].merged.v.catalog)
                              THEN CatalogSpec(wk[w].merged.v.catalog, n) ELSE @[n]],
        !.merged = Some([ok |-> FALSE, errors |-> errors]),
        !.steps = @ \o steps \o <<"insert_errors">>]

\* A merge that returned errors (lines 173-176).
MergeFailure(w, errors, steps) ==
    [Return(w, MergeFailed) EXCEPT
        !.txn.errors_inserted = @ \cup ErrorRows(Row(w).id, errors),
        !.merged = Some([ok |-> FALSE, errors |-> errors]),
        !.steps = @ \o steps \o <<"insert_errors">>]

\* build_merged_catalog, lines 247-311.
MergeCapture(w) ==
    /\ wk[w].pc = "merge"
    /\ LET row == Row(w)
           result == build_merged_capture(row, wk[w].output.v,
                        TxnDraftSpecs(w, row.draft_id), live_specs)
       IN  wk' =
             IF ~ParseOk(wk[w].output.v) THEN Failed(w, ParseFailed)
             ELSE IF ~result.ok
             THEN [wk EXCEPT ![w] =
                    MergeFailure(w, result.errors, result.steps)]
             ELSE [wk EXCEPT ![w].pc = "collections", ![w].merged = Some(result),
                             ![w].steps = @ \o <<"resolve_capture", "merge_capture">>]
    /\ row_locks' = LocksAfter(w, wk')
    /\ UNCHANGED <<database, json_ext>>

\* build_merged_catalog, lines 313-343.
MergeCollections(w) ==
    /\ wk[w].pc = "collections"
    /\ LET row == Row(w)
           result == build_merged_collections(wk[w].merged.v,
                        TxnDraftSpecs(w, row.draft_id), live_specs)
       IN  wk' =
             IF ~result.ok
             THEN [wk EXCEPT ![w] =
                    MergeFailure(w, result.errors, <<"resolve_collections">>)]
             ELSE [wk EXCEPT ![w].pc = "upsert", ![w].catalog = Some(result.catalog),
                             ![w].steps = @ \o <<"resolve_collections", "merge_collections">>]
    /\ UNCHANGED <<database, row_locks, json_ext>>

\* Mutant of upsert_specs: the draft is replaced by the catalog, and a spec
\* the catalog does not name is removed from the draft.
upsert_specs_replaces(txn_specs, catalog) ==
    [n \in Names |-> IF n \in CatalogNames(catalog) THEN CatalogSpec(catalog, n)
                     ELSE NoSpec]

\* draft::upsert_specs: every spec of the catalog is written to the draft,
\* replacing the draft's spec of that name.
upsert_specs(txn_specs, catalog) ==
    [n \in Names |-> IF n \in CatalogNames(catalog) THEN CatalogSpec(catalog, n)
                     ELSE txn_specs[n]]

\* Mutant of UpsertSpecs: the draft is pruned whether or not the job
\* publishes.
UpsertSpecsThenPrune(w) ==
    /\ wk[w].pc = "upsert"
    /\ wk' = [wk EXCEPT ![w] =
                [wk[w] EXCEPT
                    !.pc = "prune",
                    !.drafted_spec_count = spec_count(wk[w].catalog.v),
                    !.txn.specs = upsert_specs(@, wk[w].catalog.v),
                    !.steps = Append(@, "upsert_specs")]]
    /\ UNCHANGED <<database, row_locks, json_ext>>

\* Lines 179-184 and 223-233.
UpsertSpecs(w) ==
    /\ wk[w].pc = "upsert"
    /\ CatalogNames(wk[w].catalog.v) \cap SpecsLockedByOthers(w, Row(w).draft_id) = {}
    /\ LET me == [wk[w] EXCEPT
                    !.drafted_spec_count = spec_count(wk[w].catalog.v),
                    !.txn.specs = upsert_specs(@, wk[w].catalog.v),
                    !.steps = Append(@, "upsert_specs")]
       IN  wk' = [wk EXCEPT ![w] =
                IF Row(w).auto_publish THEN [me EXCEPT !.pc = "prune"]
                ELSE [me EXCEPT !.pc = "resolve",
                                !.status = Some(Success(None, FALSE))]]
    /\ UNCHANGED <<database, row_locks, json_ext>>

\* agent_sql::drafts::prune_unchanged_draft_specs: the names of the draft's
\* specs that are identical to their live spec; they are deleted from the
\* draft.
Identical(a, b) == a.spec_type = b.spec_type /\ a = b

prune_unchanged_draft_specs(drafted, live) ==
    {n \in Names : drafted[n] # NoSpec /\ Identical(drafted[n], live[n])}

\* Line 200: whether the job's specs count as unchanged.
specs_unchanged(pruned_specs, drafted_spec_count) ==
    Cardinality(pruned_specs) = drafted_spec_count

\* Lines 190-208.
Prune(w) ==
    /\ wk[w].pc = "prune"
    /\ prune_unchanged_draft_specs(TxnDraftSpecs(w, Row(w).draft_id), live_specs)
         \cap SpecsLockedByOthers(w, Row(w).draft_id) = {}
    /\ LET pruned_specs ==
              prune_unchanged_draft_specs(TxnDraftSpecs(w, Row(w).draft_id), live_specs)
           me == [wk[w] EXCEPT
                    !.pruned = pruned_specs,
                    !.txn.specs = [n \in Names |-> IF n \in pruned_specs THEN NoSpec
                                                   ELSE @[n]],
                    !.steps = Append(@, "prune")]
       IN  wk' = [wk EXCEPT ![w] =
                IF specs_unchanged(pruned_specs, wk[w].drafted_spec_count)
                THEN [me EXCEPT !.pc = "resolve", !.status = Some(Success(None, TRUE))]
                ELSE [me EXCEPT !.pc = "publish"]]
    /\ UNCHANGED <<database, row_locks, json_ext>>

\* The id the database gives a new publication: one no publication has,
\* committed or not.
UsedIds ==
    {p.id : p \in publications}
    \cup {wk[w].txn.publication.v.id : w \in {x \in Workers : wk[x].txn.publication.some}}
FreshId == CHOOSE i \in 1..(Cardinality(UsedIds) + 1) : i \notin UsedIds

PublicationDetail(id) ==
    [text |-> "system created publication in response to discover", discover |-> id]

\* agent_sql::publications::create as process() calls it (lines 210-221).
create_publication(row, id) ==
    [id |-> id, user_id |-> row.user_id, draft_id |-> row.draft_id,
     auto_evolve |-> row.auto_evolve, detail |-> PublicationDetail(row.id)]

\* Mutant of Publish: the publication is created, and the status does not
\* name it.
PublishUnrecorded(w) ==
    /\ wk[w].pc = "publish"
    /\ LET publication == create_publication(Row(w), FreshId)
       IN  wk' = [wk EXCEPT ![w] =
                [wk[w] EXCEPT !.pc = "resolve",
                              !.txn.publication = Some(publication),
                              !.status = Some(Success(None, FALSE)),
                              !.steps = Append(@, "create_publication")]]
    /\ UNCHANGED <<database, row_locks, json_ext>>

\* Lines 210-233.
Publish(w) ==
    /\ wk[w].pc = "publish"
    /\ LET publication == create_publication(Row(w), FreshId)
       IN  wk' = [wk EXCEPT ![w] =
                [wk[w] EXCEPT !.pc = "resolve",
                              !.txn.publication = Some(publication),
                              !.status = Some(Success(Some(publication.id), FALSE)),
                              !.steps = Append(@, "create_publication")]]
    /\ UNCHANGED <<database, row_locks, json_ext>>

\* agent_sql::discovers::resolve (line 60): the status is written to the row.
Resolve(w) ==
    /\ wk[w].pc = "resolve"
    /\ wk' = [wk EXCEPT ![w].pc = "commit", ![w].txn.status = wk[w].status,
                        ![w].steps = Append(@, "resolve")]
    /\ UNCHANGED <<database, row_locks, json_ext>>

\* txn.commit() (line 61): the writes of the transaction become visible and
\* the row lock is released.
Commit(w) ==
    /\ wk[w].pc = "commit"
    /\ LET txn == wk[w].txn
           d == Row(w).draft_id
       IN  /\ job_status' = [job_status EXCEPT ![wk[w].job] =
                                IF txn.status.some THEN txn.status.v ELSE @]
           /\ draft_specs' = [draft_specs EXCEPT ![d] =
                                [n \in Names |-> IF txn.specs[n] # Untouched
                                                 THEN txn.specs[n] ELSE @[n]]]
           /\ draft_errors' = [draft_errors EXCEPT ![d] =
                                (@ \ txn.errors_deleted) \cup txn.errors_inserted]
           /\ publications' = publications \cup
                                (IF txn.publication.some THEN {txn.publication.v} ELSE {})
    /\ wk' = [wk EXCEPT ![w] = IdleWorker]
    /\ row_locks' = Released(w)
    /\ UNCHANGED <<rows, live_specs, json_ext>>

\* Mutant of Abort: the draft errors were written outside the transaction,
\* and stay when it is rolled back.
AbortKeepsErrors(w) ==
    /\ wk[w].pc # "idle"
    /\ wk' = RolledBack(w)
    /\ row_locks' = Released(w)
    /\ draft_errors' = [draft_errors EXCEPT ![Row(w).draft_id] =
                          (@ \ wk[w].txn.errors_deleted) \cup wk[w].txn.errors_inserted]
    /\ UNCHANGED <<rows, job_status, draft_specs, live_specs, publications, json_ext>>

\* Any step of handle() after the dequeue fails (a database or I/O error, a
\* process that cannot be launched, a crash): the `?` returns the error and
\* the transaction is dropped, which rolls it back.
Abort(w) ==
    /\ wk[w].pc # "idle"
    /\ wk' = RolledBack(w)
    /\ row_locks' = Released(w)
    /\ UNCHANGED <<database, json_ext>>

\* ------------------------------------------------------------------- Init
RowSpace(id) ==
    [id : {id},
     capture_name : CaptureNames,
     connector_tag_job_success : BOOLEAN,
     protocol : Protocols,
     image_name : ImageNames,
     image_tag : ImageTags,
     draft_id : Drafts,
     user_id : Users,
     auto_publish : BOOLEAN,
     auto_evolve : BOOLEAN,
     update_only : BOOLEAN]

TheCapture == Name("aliceCo/dir", "source-thingy")
Foo == Name("aliceCo/dir", "foo")
Bar == Name("aliceCo/dir", "bar")
Other == Name("aliceCo/dir", "other")
Quz == Name("aliceCo/dir", "quz")

NoSpecs == [n \in Names |-> NoSpec]

\* Live specs: a published capture that binds foo, its collection, and a
\* collection no capture of this model writes.
LiveCapture ==
    RawCapture(<<[resource |-> [table |-> "foo"], target |-> Foo]>>,
               Endpoint("ghcr.io/estuary/source-thingy", ":v1"), DefaultInterval)
LivePublished ==
    (TheCapture :> LiveCapture) @@ (Foo :> RawCollection(<<"foo">>, "s1"))
    @@ (Other :> RawCollection(<<"other">>, "s1")) @@ NoSpecs

\* Draft contents: a draft that holds the unrelated collection as it is
\* live; one whose collection foo does not decode (its key is a string); one
\* with an edited capture (a manually added resource field and interval).
DraftWithOther == (Other :> RawCollection(<<"other">>, "s1")) @@ NoSpecs
DraftWithBadKey ==
    (Foo :> [spec_type |-> "collection", key |-> JStr("invalid"), schema |-> "s1"])
    @@ NoSpecs
DraftWithEditedCapture ==
    (TheCapture :>
        RawCapture(<<[resource |-> [table |-> "foo", modified |-> "1"], target |-> Other]>>,
                   Endpoint("old/image", ":v0"), "10m"))
    @@ NoSpecs

OldError == [job |-> 0, n |-> 1, error |-> DraftError(TheCapture, "an old error")]

\* The database before the workers start: [live, drafted (of d1), errors (of d1)].
Fixtures ==
    {[live |-> NoSpecs, drafted |-> NoSpecs, errors |-> {}],
     [live |-> LivePublished, drafted |-> NoSpecs, errors |-> {OldError}],
     [live |-> LivePublished, drafted |-> DraftWithOther, errors |-> {}],
     [live |-> LivePublished, drafted |-> DraftWithBadKey, errors |-> {}],
     [live |-> NoSpecs, drafted |-> DraftWithEditedCapture, errors |-> {OldError}]}

\* A row that passes the pre-flight checks and is pulled.
GoodRow(id, draft_id, auto_publish) ==
    [id |-> id, capture_name |-> TheCapture, connector_tag_job_success |-> TRUE,
     protocol |-> "capture", image_name |-> "ghcr.io/estuary/source-thingy",
     image_tag |-> ":v1", draft_id |-> draft_id, user_id |-> "u1",
     auto_publish |-> auto_publish, auto_evolve |-> FALSE, update_only |-> FALSE]

\* A row that was resolved before the workers start.
ResolvedRow(id) ==
    [GoodRow(id, "d2", FALSE) EXCEPT !.connector_tag_job_success = FALSE]

InitDatabase(fixtures) ==
    /\ \E f \in fixtures :
          /\ live_specs = f.live
          /\ draft_specs = [d \in Drafts |-> IF d = "d1" THEN f.drafted ELSE NoSpecs]
          /\ draft_errors = [d \in Drafts |-> IF d = "d1" THEN f.errors ELSE {}]
    /\ publications = {}
    /\ row_locks = [j \in JobIds |-> NoWorker]
    /\ wk = [w \in Workers |-> IdleWorker]
    /\ doc = Null
    /\ ret = NoCall

\* One queued job, of any row, on any database; the other rows were resolved
\* earlier.
InitSingle ==
    /\ \E row \in RowSpace(1) :
          rows = [j \in JobIds |-> IF j = 1 THEN row ELSE ResolvedRow(j)]
    /\ job_status = [j \in JobIds |-> IF j = 1 THEN Queued ELSE TagFailed]
    /\ InitDatabase(Fixtures)

\* Two queued jobs for the same capture, in the same draft or in two drafts.
PairFixtures ==
    {[live |-> LivePublished, drafted |-> DraftWithOther, errors |-> {OldError}]}
InitPair ==
    /\ NumJobs >= 2
    /\ \E d \in Drafts, a1, a2 \in BOOLEAN :
          rows = [j \in JobIds |->
                    IF j = 1 THEN GoodRow(1, "d1", a1)
                    ELSE IF j = 2 THEN GoodRow(2, d, a2) ELSE ResolvedRow(j)]
    /\ job_status = [j \in JobIds |-> IF j <= 2 THEN Queued ELSE TagFailed]
    /\ InitDatabase(PairFixtures)

Init == InitSingle \/ InitPair

Next ==
    \E w \in Workers :
        \/ Dequeue(w)
        \/ Preflight(w)
        \/ StartPull(w)
        \/ PullExit(w)
        \/ StartDiscover(w)
        \/ DiscoverExit(w)
        \/ MergeCapture(w)
        \/ MergeCollections(w)
        \/ UpsertSpecs(w)
        \/ Prune(w)
        \/ Publish(w)
        \/ Resolve(w)
        \/ Commit(w)
        \/ Abort(w)

Spec == Init /\ [][Next]_vars

\* ------------------------------------------- build_merged_catalog's inputs
\* The database of test_catalog_merge_ok (lines 364-403).  Live: a collection
\* with a read and a write schema.  Drafted: the capture, whose binding of foo
\* has manually edited fields and targets that collection, and a collection
\* quz with projections that no binding targets yet.
ExistingCollection ==
    [spec_type |-> "collection", key |-> JArr(<<"/old/key">>),
     writeSchema |-> "false", readSchema |-> "read!"]
DraftedQuz ==
    [spec_type |-> "collection", key |-> JArr(<<"/old/key">>),
     schema |-> "false", projections |-> "a-field: /some/ptr"]
DraftedCapture ==
    RawCapture(<<[resource |-> [table |-> "foo", modified |-> "1", cursor |-> "old"],
                  target |-> Other]>>,
               Endpoint("old/image", ":v0"), "10m")
LiveMergeOk == (Other :> ExistingCollection) @@ NoSpecs
DraftMergeOk == (TheCapture :> DraftedCapture) @@ (Quz :> DraftedQuz) @@ NoSpecs

\* The database of test_catalog_merge_bad_spec (lines 444-456) is
\* DraftWithBadKey on no live specs.  Two more malformed drafts: one with two
\* collections whose key is a string, one whose capture has bindings that
\* are an object, not a sequence.
BadCollection == [spec_type |-> "collection", key |-> JStr("invalid"), schema |-> "s1"]
DraftWithBadKeys ==
    (Foo :> BadCollection) @@ (Bar :> BadCollection) @@ (Quz :> DraftedQuz) @@ NoSpecs
DraftWithBadCapture ==
    (TheCapture :>
        [spec_type |-> "capture", bindings |-> JEmptyObj,
         endpoint |-> Endpoint("old/image", ":v0"), interval |-> "10m"])
    @@ NoSpecs

\* A draft that edits what is live: the capture (another interval, foo bound
\* to another collection) and that collection (projections).
DraftOverLive == (TheCapture :> DraftedCapture) @@ (Other :> DraftedQuz) @@ NoSpecs

MergeFixtures ==
    {[live |-> NoSpecs, drafted |-> NoSpecs, errors |-> {}],
     [live |-> LivePublished, drafted |-> DraftOverLive, errors |-> {}],
     [live |-> LiveMergeOk, drafted |-> DraftMergeOk, errors |-> {}],
     [live |-> NoSpecs, drafted |-> DraftWithBadKey, errors |-> {}],
     [live |-> NoSpecs, drafted |-> DraftWithBadKeys, errors |-> {}],
     [live |-> NoSpecs, drafted |-> DraftWithBadCapture, errors |-> {}]}

\* The job rows of the merge runs: the arguments of the two tests, with
\* update_only set or not; one row is pulled and published.
MergeRows ==
    {[GoodRow(1, "d1", FALSE) EXCEPT !.image_tag = LOCAL_IMAGE_TAG, !.update_only = u] :
        u \in BOOLEAN}
    \cup {GoodRow(1, "d1", TRUE)}

\* One queued job, or two queued jobs with the same arguments, on one of the
\* merge databases.
InitMerge ==
    /\ NumJobs >= 2
    /\ \E row \in MergeRows, twin \in BOOLEAN :
          /\ rows = [j \in JobIds |->
                      IF j = 1 THEN row
                      ELSE IF j = 2 /\ twin THEN [row EXCEPT !.id = 2]
                      ELSE ResolvedRow(j)]
          /\ job_status = [j \in JobIds |->
                            IF j = 1 \/ (j = 2 /\ twin) THEN Queued ELSE TagFailed]
    /\ InitDatabase(MergeFixtures)

SpecMerge == InitMerge /\ [][Next]_vars

\* ------------------------------------------------- json_ext: Pointer calls
\* The pieces of the pointer texts: plain, the forms of integers the tests
\* name (lines 264-275), escapes (257-261), and the largest usize and its
\* successor.
MaxTokens == 2
UsizeOverflow ==
    <<"1", "8", "4", "4", "6", "7", "4", "4", "0", "7", "3", "7", "0", "9",
      "5", "5", "1", "6", "1", "6">>
Pieces ==
    {<<>>, <<"a">>, <<"-">>, <<"0">>, <<"1">>, <<"2">>, <<"0", "1">>, <<"+", "1">>,
     <<"-", "1">>, <<"~", "0">>, <<"~", "1">>, <<"~", "0", "1">>, <<"a", "~", "1", "a">>,
     UsizeMax, UsizeOverflow}
NavPieces == {<<"a">>, <<"-">>, <<"1">>, UsizeMax}

RECURSIVE Join(_)
Join(pieces) == IF pieces = <<>> THEN <<>> ELSE <<"/">> \o Head(pieces) \o Join(Tail(pieces))
Texts(pieces) == {Join(ps) : ps \in UNION {[1..n -> pieces] : n \in 0..MaxTokens}}
\* Rooted texts, and texts without the leading '/'.
PointerTexts == Texts(Pieces) \cup {Tail(s) : s \in Texts(Pieces) \ {<<>>}}
NavTexts == Texts(NavPieces)

\* The document of test_ptr_query (lines 303-316), in the characters of the
\* model.
QueryDoc ==
    Object((<<"a">> :> Array(<<Scalar("bar"), Scalar("baz")>>))
           @@ (<<>> :> Scalar("0"))
           @@ (<<"a", "/", "a">> :> Scalar("1"))
           @@ (<<"~">> :> Scalar("8"))
           @@ (<<"1">> :> Scalar("10"))
           @@ (<<"-">> :> Scalar("11")))
MaxNodes == 3
SwappedIn == {None, Some(Scalar("hello"))}

\* The Pointer of a text that parses.
Tokens(s) == iter(try_from(s).tape)

\* A text is parsed in a run of its own, before any other call.
TryFrom(s) ==
    /\ ret = NoCall
    /\ doc = Null
    /\ ret' = [op |-> "try_from", arg |-> s, result |-> try_from(s)]
    /\ UNCHANGED <<database, row_locks, wk, doc>>

Query(s) ==
    /\ ret.op # "try_from"
    /\ try_from(s).ok
    /\ ret' = [op |-> "query", arg |-> s, result |-> query_tokens(Tokens(s), doc)]
    /\ UNCHANGED <<database, row_locks, wk, doc>>

\* A create, and the swap of a value into the location it returns (lines
\* 383-384).  A panic ends the run.
Create(s, swap_in) ==
    /\ ret.op # "try_from"
    /\ try_from(s).ok
    /\ ~(ret.op = "create" /\ ret.result = "panic")
    /\ LET tokens == Tokens(s)
           r == create_tokens(tokens, doc, swap_in)
       IN  /\ \A i \in 1..Len(tokens) :
                 tokens[i].kind = "Index" =>
                    Len(tokens[i].v) <= 1 \/ tokens[i].v = UsizeMax
           /\ NodeCount(r.v) <= MaxNodes \/ NodeCount(r.v) <= NodeCount(doc)
           /\ doc' = IF r.ret = "panic" THEN doc ELSE r.v
           /\ ret' = [op |-> "create", arg |-> s, swap_in |-> swap_in,
                      result |-> r.ret]
    /\ UNCHANGED <<database, row_locks, wk>>

InitPtr ==
    /\ rows = [j \in JobIds |-> ResolvedRow(j)]
    /\ job_status = [j \in JobIds |-> TagFailed]
    /\ live_specs = NoSpecs
    /\ draft_specs = [d \in Drafts |-> NoSpecs]
    /\ draft_errors = [d \in Drafts |-> {}]
    /\ publications = {}
    /\ row_locks = [j \in JobIds |-> NoWorker]
    /\ wk = [w \in Workers |-> IdleWorker]
    /\ doc \in {Null, QueryDoc}
    /\ ret = NoCall

NextPtr ==
    \/ \E s \in PointerTexts : TryFrom(s)
    \/ \E s \in NavTexts \cup {<<>>} : Query(s)
    \/ \E s \in NavTexts, swap_in \in SwappedIn : Create(s, swap_in)

SpecPtr == InitPtr /\ [][NextPtr]_vars

\* Worker w waits for a subprocess to exit.
InSubprocess(w) == wk[w].pc \in {"pulling", "discovering"}
\* The steps of handle() that do not wait for a subprocess.
OwnStep(w) ==
    \/ Preflight(w) \/ StartPull(w) \/ StartDiscover(w) \/ MergeCapture(w)
    \/ MergeCollections(w) \/ UpsertSpecs(w) \/ Prune(w) \/ Publish(w)
    \/ Resolve(w) \/ Commit(w)
\* The worker's loop: it calls handle() again and again, and handle() goes
\* on from one step to the next; an error process() raised is returned.
HandleLoop(w) == Dequeue(w) \/ OwnStep(w) \/ (wk[w].pc = "raised" /\ Abort(w))
\* A subprocess exits.
SubprocessExit(w) == PullExit(w) \/ DiscoverExit(w)

\* The workers under weak fairness of their loops, with subprocesses that
\* terminate.
SpecLive ==
    /\ Init /\ [][Next]_vars
    /\ \A w \in Workers : WF_vars(HandleLoop(w)) /\ WF_vars(SubprocessExit(w))

\* ================================================================ claims
Range(seq) == {seq[i] : i \in 1..Len(seq)}

\* Worker w is inside handle() with a row.
Holding(w) == wk[w].job # NoJob
\* process() has returned a status to handle().
Returned(w) == Holding(w) /\ wk[w].status.some
\* resolve() has been called with the status: the job resolves to it.
Resolved(w) == wk[w].pc = "commit"

\* ---------------------------------------------------------------- C1
C1_Step ==
    \A j \in JobIds :
        job_status'[j] # job_status[j] =>
            /\ job_status[j] = Queued
            /\ job_status'[j].type \in TerminalTypes
C1_State ==
    \A w \in Workers :
        /\ wk[w].status.some => wk[w].status.v.type \in TerminalTypes
        /\ Holding(w) => job_status[wk[w].job] = Queued
\* C1: the committed status of a row only ever changes from Queued to one of
\* the seven terminal values (so it changes at most once); process() never
\* yields Queued; and a row a worker holds (dequeued, about to be written) is
\* always a Queued row, so a resolved row is never dequeued or written again.
C1_StatusWrittenOnce == [][C1_Step]_vars /\ []C1_State
C1_Witness ==
    /\ job_status[1].type = "success"
    /\ NumJobs >= 2 /\ rows[2].connector_tag_job_success
    /\ job_status[2] = DiscoverFailed
    /\ \E w \in Workers : wk[w].last = "Err"

\* ---------------------------------------------------------------- C2
\* C2: no two workers hold a claim on the same row at the same time, and
\* the worker that holds a row holds its lock.
C2_ExclusiveClaim ==
    \A w1 \in Workers :
        Holding(w1) =>
            /\ row_locks[wk[w1].job] = w1
            /\ \A w2 \in Workers \ {w1} : wk[w2].job # wk[w1].job
C2_Witness ==
    \E w1, w2 \in Workers :
        /\ wk[w1].job = 1 /\ wk[w1].pc = "discovering"
        /\ wk[w2].job = 2 /\ wk[w2].pc = "preflight"

\* ---------------------------------------------------------------- C3
C3_Step ==
    \A w \in Workers :
        (wk[w].pc # "idle" /\ wk'[w].last = "Err") =>
            LET j == wk[w].job
            IN  /\ UNCHANGED <<job_status, draft_specs, draft_errors, publications>>
                /\ job_status'[j] = Queued
                /\ row_locks'[j] = NoWorker
                /\ wk'[w].pc = "idle"
\* C3: a step in which handle() returns an error after a dequeue leaves the
\* committed job status, draft specs, draft errors and publications as they
\* were, with the row Queued and unlocked (any worker may claim it again).
C3_ErrorRollsBack == [][C3_Step]_vars
C3_Witness ==
    \E w1, w2 \in Workers :
        /\ w1 # w2
        /\ wk[w1].last = "Err" /\ wk[w1].pc = "idle"
        /\ job_status[1] = Queued
        /\ \A j \in JobIds \ {1} : job_status[j] = TagFailed
        /\ wk[w2].job = 1

\* ---------------------------------------------------------------- C4
\* C4: for a row whose tagging did not succeed, the status process()
\* returns, and the status committed, is TagFailed, whatever the row's other
\* fields.
C4_TagFailed ==
    /\ \A w \in Workers :
         (Returned(w) /\ ~Row(w).connector_tag_job_success) =>
            wk[w].status.v = TagFailed
    /\ \A j \in JobIds :
         (~rows[j].connector_tag_job_success /\ job_status[j] # Queued) =>
            job_status[j] = TagFailed
C4_Witness ==
    /\ ~rows[1].connector_tag_job_success
    /\ rows[1].protocol # "capture"
    /\ ~does_connector_exist(rows[1].image_name)
    /\ rows[1].auto_publish /\ rows[1].update_only
    /\ job_status[1] = TagFailed

\* ---------------------------------------------------------------- C5
\* C5 as stated: a row whose protocol is not "capture" always ends as
\* WrongProtocol.
C5_Original ==
    /\ \A w \in Workers :
         (Returned(w) /\ Row(w).protocol # "capture") => wk[w].status.v = WrongProtocol
    /\ \A j \in JobIds :
         (rows[j].protocol # "capture" /\ job_status[j] # Queued) =>
            job_status[j] = WrongProtocol
\* C5 as amended: a row whose tagging succeeded and whose protocol is not
\* "capture" always ends as WrongProtocol.
C5_WrongProtocol ==
    /\ \A w \in Workers :
         (Returned(w) /\ Row(w).connector_tag_job_success
            /\ Row(w).protocol # "capture") => wk[w].status.v = WrongProtocol
    /\ \A j \in JobIds :
         (rows[j].connector_tag_job_success /\ rows[j].protocol # "capture"
            /\ job_status[j] # Queued) => job_status[j] = WrongProtocol
C5_Witness ==
    /\ rows[1].connector_tag_job_success
    /\ rows[1].protocol # "capture"
    /\ ~does_connector_exist(rows[1].image_name)
    /\ job_status[1] = WrongProtocol

\* ---------------------------------------------------------------- C6
\* C6: process() returns ImageForbidden exactly when the tagging succeeded,
\* the protocol is "capture" and the image is not registered; and the image
\* lookup is made only when the first two checks passed.
C6_ImageForbidden ==
    \A w \in Workers :
        /\ Returned(w) =>
             (wk[w].status.v = ImageForbidden
                <=> /\ Row(w).connector_tag_job_success
                    /\ Row(w).protocol = "capture"
                    /\ ~does_connector_exist(Row(w).image_name))
        /\ (Holding(w) /\ "does_connector_exist" \in Range(wk[w].steps)) =>
             /\ Row(w).connector_tag_job_success
             /\ Row(w).protocol = "capture"
C6_Witness ==
    \E w \in Workers :
        /\ Resolved(w)
        /\ wk[w].status.v = ImageForbidden
        /\ wk[w].steps = <<"does_connector_exist", "resolve">>

\* ---------------------------------------------------------------- C7
\* Every spec of the catalog worker w merged is identical to its live spec.
MergedEqualsLive(w) ==
    \A n \in CatalogNames(wk[w].catalog.v) :
        Identical(CatalogSpec(wk[w].catalog.v, n), live_specs[n])
\* C7: a job resolves to Success with specs_unchanged = true if and only if
\* auto_publish is set and every spec of the merged catalog equals its live
\* counterpart; then publication_id is absent and no publication is created.
C7_SpecsUnchangedIff ==
    \A w \in Workers :
        (Resolved(w) /\ wk[w].status.v.type = "success") =>
            /\ wk[w].status.v.specs_unchanged
                 <=> (Row(w).auto_publish /\ MergedEqualsLive(w))
            /\ wk[w].status.v.specs_unchanged =>
                 /\ ~wk[w].status.v.publication_id.some
                 /\ ~wk[w].txn.publication.some

\* ---------------------------------------------------------------- C8
C8_State ==
    \A w \in Workers :
        (Returned(w) /\ wk[w].status.v = MergeFailed) =>
            /\ \A n \in Names : wk[w].txn.specs[n] = Untouched
            /\ ~wk[w].txn.publication.some
            /\ ~wk[w].catalog.some
            /\ wk[w].merged.some /\ ~wk[w].merged.v.ok
            /\ wk[w].merged.v.errors # <<>>
            /\ wk[w].txn.errors_inserted
                 = ErrorRows(wk[w].job, wk[w].merged.v.errors)
C8_Step ==
    \A w \in Workers :
        (Resolved(w) /\ wk[w].status.v = MergeFailed
            /\ job_status'[wk[w].job] = MergeFailed) =>
            /\ UNCHANGED <<draft_specs, publications>>
            /\ draft_errors'[Row(w).draft_id] \ draft_errors[Row(w).draft_id]
                 = ErrorRows(wk[w].job, wk[w].merged.v.errors)
            /\ \A d \in Drafts \ {Row(w).draft_id} : draft_errors'[d] = draft_errors[d]
\* C8: a job that resolves to MergeFailed has written no draft spec (none
\* inserted, overwritten or pruned) and no publication: what it persists for
\* the draft is the list of errors the merge returned, and its commit changes
\* neither the draft specs nor the publications.
C8_MergeFailedLeavesDraft == []C8_State /\ [][C8_Step]_vars
C8_Witness ==
    /\ job_status[1] = MergeFailed
    /\ draft_specs["d1"] = DraftWithBadKey
    /\ \E e \in draft_errors["d1"] : e.job = 1 /\ e.error.catalog_name = Foo

\* ---------------------------------------------------------------- C9
C9_State ==
    \A w \in Workers :
        (Holding(w) /\ wk[w].catalog.some /\ ~Row(w).auto_publish) =>
            /\ wk[w].pc \in {"upsert", "resolve", "commit"}
            /\ wk[w].pc # "upsert" =>
                 /\ wk[w].status = Some(Success(None, FALSE))
                 /\ wk[w].pruned = {}
                 /\ ~wk[w].txn.publication.some
                 /\ \A n \in CatalogNames(wk[w].catalog.v) :
                        wk[w].txn.specs[n] = CatalogSpec(wk[w].catalog.v, n)
                 /\ \A n \in Names : wk[w].txn.specs[n] # NoSpec
C9_Step ==
    \A w \in Workers :
        (Resolved(w) /\ wk[w].catalog.some /\ ~Row(w).auto_publish
            /\ job_status'[wk[w].job] # Queued) =>
            /\ job_status'[wk[w].job] = Success(None, FALSE)
            /\ publications' = publications
            /\ \A n \in CatalogNames(wk[w].catalog.v) :
                  draft_specs'[Row(w).draft_id][n] = CatalogSpec(wk[w].catalog.v, n)
\* C9: when the merge succeeded and auto_publish is not set, the job
\* resolves to Success{publication_id: none, specs_unchanged: false}, nothing
\* is pruned and no publication is created: after the commit every merged spec
\* is in the draft, also one that is identical to its live spec.
C9_NoAutoPublish == []C9_State /\ [][C9_Step]_vars
C9_Witness ==
    /\ ~rows[1].auto_publish
    /\ job_status[1] = Success(None, FALSE)
    /\ live_specs[Foo] # NoSpec
    /\ draft_specs[rows[1].draft_id][Foo] = live_specs[Foo]
    /\ draft_specs[rows[1].draft_id][TheCapture] # NoSpec
    /\ publications = {}

\* ---------------------------------------------------------------- C10
\* C10: when the merge succeeded, auto_publish is set and not every spec of
\* the merged catalog was pruned, one publication is created for the job's
\* draft and user, with the job's auto_evolve flag and a detail naming the job,
\* and the job resolves to Success{publication_id: some(its id),
\* specs_unchanged: false}.
C10_PublicationCreated ==
    \A w \in Workers :
        (Resolved(w) /\ wk[w].catalog.some /\ Row(w).auto_publish
            /\ ~(CatalogNames(wk[w].catalog.v) \subseteq wk[w].pruned)) =>
            /\ wk[w].txn.publication.some
            /\ wk[w].txn.publication.v.draft_id = Row(w).draft_id
            /\ wk[w].txn.publication.v.user_id = Row(w).user_id
            /\ wk[w].txn.publication.v.auto_evolve = Row(w).auto_evolve
            /\ wk[w].txn.publication.v.detail.discover = Row(w).id
            /\ wk[w].status.v = Success(Some(wk[w].txn.publication.v.id), FALSE)

\* ---------------------------------------------------------------- C11
\* C11: a pull or discover process that exits non-zero always gives a status
\* (PullFailed, DiscoverFailed) that process() returns: whatever the failed
\* process wrote, process() raises no error for it.  (The only error process()
\* raises by itself is for the output of a discover that exited with success.)
C11_NonZeroExitIsStatus ==
    \A w \in Workers :
        wk[w].pc = "raised" => wk[w].error # NotUtf8

\* ---------------------------------------------------------------- C12
\* C12: when the discover process exited non-zero, the job's transaction
\* holds exactly one new draft error, for the row's capture name, without
\* scope, whose detail is the diagnostic output of the process (what went to
\* the log sink); the status is DiscoverFailed and the transaction wrote no
\* draft spec and no publication.
C12_DiscoverFailedError ==
    \A w \in Workers :
        (Returned(w) /\ wk[w].status.v = DiscoverFailed) =>
            /\ wk[w].txn.errors_inserted =
                 ErrorRows(wk[w].job,
                           <<[catalog_name |-> Row(w).capture_name,
                              scope |-> None,
                              detail |-> wk[w].logs.v]>>)
            /\ \A n \in Names : wk[w].txn.specs[n] = Untouched
            /\ ~wk[w].txn.publication.some

\* ---------------------------------------------------------------- C13
PullCount(w) == Cardinality({i \in DOMAIN wk[w].steps : wk[w].steps[i] = "pull"})
\* C13: in an attempt for a row with the local image tag no pull is launched
\* (the worker is never at the pull, and never returns PullFailed); in an
\* attempt for any other tag the pull is launched at most once, and once
\* before the discover process is launched.  No row with the local tag is
\* ever committed as PullFailed.
C13_PullSkippedForLocal ==
    /\ \A w \in Workers :
         Holding(w) =>
            IF Row(w).image_tag = LOCAL_IMAGE_TAG
            THEN /\ PullCount(w) = 0
                 /\ wk[w].pc \notin {"pull", "pulling"}
                 /\ wk[w].status.some => wk[w].status.v # PullFailed
            ELSE /\ PullCount(w) <= 1
                 /\ \A i \in DOMAIN wk[w].steps :
                      wk[w].steps[i] = "discover" =>
                         /\ PullCount(w) = 1
                         /\ \E k \in 1..(i - 1) : wk[w].steps[k] = "pull"
    /\ \A j \in JobIds :
         job_status[j] = PullFailed => rows[j].image_tag # LOCAL_IMAGE_TAG
C13_Witness ==
    \E w \in Workers :
        /\ Resolved(w)
        /\ Row(w).image_tag = LOCAL_IMAGE_TAG
        /\ wk[w].status.v = DiscoverFailed
        /\ wk[w].steps = <<"does_connector_exist", "delete_errors", "discover",
                           "insert_errors", "resolve">>

\* ---------------------------------------------------------------- C14
\* A step in which an attempt ends with an infrastructure error: an error of
\* the database, of I/O or of a process launch, or a crash (Abort at a place
\* where process() raised nothing), or discover output that is no discovery
\* response.
InfrastructureErrorStep ==
    \E w \in Workers :
        \/ wk[w].pc \notin {"idle", "raised"} /\ wk'[w].last = "Err"
        \/ wk[w].pc # "raised" /\ wk'[w].pc = "raised" /\ wk'[w].error = ParseFailed
\* C14: if infrastructure errors happen only finitely often then, under weak
\* fairness of the workers' loops and with subprocesses that terminate, every
\* queued job eventually has a terminal status committed, and a queued job no
\* worker holds (a new one, or one whose attempt was aborted) is eventually
\* claimed.
C14_EventuallyTerminal ==
    (<>[][~InfrastructureErrorStep]_vars) =>
        \A j \in JobIds :
            /\ (job_status[j] = Queued) ~> (job_status[j] # Queued)
            /\ Eligible(j) ~> Locked(j)

\* ---------------------------------------------------------------- C15
\* C15: while a worker waits in a subprocess (for ever, maybe) with its row
\* claimed, any other worker is never blocked: idle, its dequeue can return
\* every queued row that no one has claimed, and returns Idle at once when
\* there is none (the hung worker's row being the only queued one); holding a
\* row, it can take its next step up to and including the commit.
C15_HungWorkerStallsItself ==
    \A w1, w2 \in Workers :
        (w1 # w2 /\ InSubprocess(w1)) =>
            /\ wk[w2].pc = "idle" =>
                 /\ \A k \in JobIds :
                      Eligible(k) => ENABLED (Dequeue(w2) /\ wk'[w2].job = k)
                 /\ (~\E k \in JobIds : Eligible(k)) =>
                      ENABLED (Dequeue(w2) /\ wk'[w2] = IdleWorker)
            /\ (Holding(w2) /\ ~InSubprocess(w2) /\ wk[w2].pc # "raised") =>
                 ENABLED OwnStep(w2)

\* ---------------------------------------------------------------- C16
\* The bindings of the capture the merge of worker w resolves (the draft's
\* capture, else the live one); none when there is no capture.
ExistingBindings(w) ==
    LET spec == ResolveOne(Row(w).capture_name, "capture",
                           TxnDraftSpecs(w, Row(w).draft_id), live_specs)
    IN  IF spec = NoSpec \/ ~DecodeOk("capture", spec) THEN <<>>
        ELSE Decode("capture", spec).bindings
MergedBindings(merged) == merged.catalog.captures[TheCapture].bindings
\* The steps in which worker w's merge_capture, and its merge_collections,
\* return without an error.
CaptureMerged(w) == wk[w].pc = "merge" /\ wk'[w].pc = "collections"
CollectionsMerged(w) == wk[w].pc = "collections" /\ wk'[w].pc = "upsert"

\* C16: with update_only set, every binding of the merged capture is a
\* binding of the existing capture (same resource identity, same target), so
\* there is none when there is no existing capture, and the merged catalog
\* holds no collection but the targets of those bindings.
C16_UpdateOnly ==
    [][\A w \in Workers :
         /\ (CaptureMerged(w) /\ Row(w).update_only) =>
               LET existing == ExistingBindings(w)
                   merged == MergedBindings(wk'[w].merged.v)
               IN  /\ \A i \in 1..Len(merged) :
                         \E k \in 1..Len(existing) :
                            /\ existing[k].target = merged[i].target
                            /\ Identity(existing[k].resource, ResourcePathPointers)
                                 = Identity(merged[i].resource, ResourcePathPointers)
                   /\ Len(merged) <= Len(existing)
                   /\ existing = <<>> => merged = <<>>
         /\ (CollectionsMerged(w) /\ Row(w).update_only) =>
               /\ DOMAIN wk'[w].catalog.v.collections
                     \subseteq Range(wk[w].merged.v.targets)
               /\ Range(wk[w].merged.v.targets)
                     = {b.target : b \in Range(MergedBindings(wk[w].merged.v))}
      ]_vars
\* update_only, an existing capture that binds foo, and a discovery of foo,
\* bar and quz: the merged capture binds foo alone and the catalog holds its
\* target alone.
C16_Witness ==
    \E w \in Workers :
        /\ wk[w].pc = "upsert"
        /\ Row(w).update_only
        /\ wk[w].output.v = Response(MergeOkOutput)
        /\ Len(MergedBindings(wk[w].merged.v)) = 1
        /\ DOMAIN wk[w].catalog.v.collections = {Other}

\* ---------------------------------------------------------------- C17
\* C17: the merged binding of a discovered binding that matches an existing
\* binding by resource identity has the existing target, every field of the
\* existing resource configuration that the discovered one has not, with its
\* value, and every field of the discovered resource configuration, with the
\* discovered value.
C17_MatchedBindingMerged ==
    [][\A w \in Workers :
         CaptureMerged(w) =>
            LET existing == ExistingBindings(w)
                merged == MergedBindings(wk'[w].merged.v)
                discovered == wk'[w].merged.v.discovered
            IN  \A j \in 1..Len(merged) :
                    LET d == discovered[j].resourceConfig
                        k == MatchIndex(d, existing, ResourcePathPointers)
                    IN  k # 0 =>
                          /\ merged[j].target = existing[k].target
                          /\ DOMAIN merged[j].resource
                                = DOMAIN existing[k].resource \cup DOMAIN d
                          /\ \A f \in DOMAIN existing[k].resource \ DOMAIN d :
                                merged[j].resource[f] = existing[k].resource[f]
                          /\ \A f \in DOMAIN d : merged[j].resource[f] = d[f]
      ]_vars
\* The drafted capture's binding of foo, with a manually added field and an
\* old cursor, merged with a discovery that reports foo with a new cursor.
C17_Witness ==
    \E w \in Workers :
        /\ wk[w].pc = "collections"
        /\ ExistingBindings(w) = DraftedCapture.bindings.v
        /\ wk[w].output.v = Response(MergeOkOutput)
        /\ MergedBindings(wk[w].merged.v)[1] =
              [resource |-> [table |-> "foo", modified |-> "1", cursor |-> "new"],
               target |-> Other]

\* ---------------------------------------------------------------- C18
\* The schema discovery writes: the write schema of a collection that has a
\* read and a write schema, else its schema.
SchemaField(collection) ==
    IF {"readSchema", "writeSchema"} \subseteq DOMAIN collection
    THEN "writeSchema" ELSE "schema"
\* The last binding that targets t.
LastIndex(targets, t) ==
    CHOOSE i \in 1..Len(targets) :
        targets[i] = t /\ \A k \in (i + 1)..Len(targets) : targets[k] # t

\* C18: after merge_collections the collection of every target has the
\* discovered key and the discovered schema (as its write schema when it has
\* a read and a write schema); when a collection of that name existed, in the
\* draft or live, referenced by a binding before or not, it has the existing
\* fields and all others are unchanged; when none existed, it has the
\* discovered key and schema and nothing else.
C18_CollectionsMerged ==
    [][\A w \in Workers :
         CollectionsMerged(w) =>
            LET merged == wk[w].merged.v
                collections == wk'[w].catalog.v.collections
            IN  \A t \in Range(merged.targets) :
                    LET d == merged.discovered[LastIndex(merged.targets, t)]
                        spec == ResolveOne(t, "collection",
                                           TxnDraftSpecs(w, Row(w).draft_id), live_specs)
                    IN  /\ t \in DOMAIN collections
                        /\ IF spec = NoSpec
                           THEN collections[t] =
                                  [key |-> d.key, schema |-> d.documentSchema]
                           ELSE LET e == Decode("collection", spec)
                                    c == collections[t]
                                    fld == SchemaField(e)
                                IN  /\ DOMAIN c = DOMAIN e
                                    /\ c.key = d.key
                                    /\ c[fld] = d.documentSchema
                                    /\ \A f \in DOMAIN e \ {"key", fld} : c[f] = e[f]
      ]_vars
\* The merge of test_catalog_merge_ok: the live collection keeps its read
\* schema, the drafted quz (newly linked) its projections, bar is new.
C18_Witness ==
    \E w \in Workers :
        /\ wk[w].pc = "upsert"
        /\ wk[w].output.v = Response(MergeOkOutput)
        /\ wk[w].merged.v.targets = <<Other, Bar, Quz>>
        /\ wk[w].catalog.v.collections[Other] =
              [key |-> <<"foo">>, writeSchema |-> "s2", readSchema |-> "read!"]
        /\ wk[w].catalog.v.collections[Quz] =
              [key |-> <<"quz">>, schema |-> "s1", projections |-> "a-field: /some/ptr"]
        /\ wk[w].catalog.v.collections[Bar] = [key |-> <<"bar">>, schema |-> "s1"]

\* ---------------------------------------------------------------- C19
\* The resolved specs that do not decode.
Malformed(resolved) ==
    {i \in 1..Len(resolved) : ~DecodeOk(resolved[i].spec_type, resolved[i].spec)}
\* A step of worker w's build_merged_catalog from the given place.
MergeStep(w, pc) == wk[w].pc = pc /\ wk'[w].pc \notin {pc, "idle"}
\* build_merged_catalog returned one error, of the given name and without a
\* scope, and no catalog.
OneErrorNoCatalog(w, name) ==
    /\ wk'[w].merged.some
    /\ ~wk'[w].merged.v.ok
    /\ "catalog" \notin DOMAIN wk'[w].merged.v
    /\ wk'[w].catalog = None
    /\ Len(wk'[w].merged.v.errors) = 1
    /\ wk'[w].merged.v.errors[1].catalog_name = name
    /\ wk'[w].merged.v.errors[1].scope = None

\* C19: when exactly one of the specs build_merged_catalog resolves does not
\* decode (the capture, or one of the target collections of a capture that
\* decodes), it returns exactly one error, which names that spec and has no
\* scope, and no catalog.
C19_OneMalformedSpec ==
    [][\A w \in Workers :
         LET drafted == TxnDraftSpecs(w, Row(w).draft_id)
         IN  /\ (MergeStep(w, "merge") /\ ParseOk(wk[w].output.v)) =>
                   LET resolved == resolve_merge_target_specs(
                                      <<Row(w).capture_name>>, "capture",
                                      drafted, live_specs)
                   IN  Malformed(resolved) # {} =>
                          OneErrorNoCatalog(w, Row(w).capture_name)
             /\ MergeStep(w, "collections") =>
                   LET resolved == resolve_merge_target_specs(
                                      wk[w].merged.v.targets, "collection",
                                      drafted, live_specs)
                   IN  \A i \in Malformed(resolved) :
                          Malformed(resolved) = {i} =>
                             OneErrorNoCatalog(w, resolved[i].catalog_name)
      ]_vars
\* The merge of test_catalog_merge_bad_spec: the drafted collection of the
\* new binding's target has a string as its key.
C19_Witness ==
    \E w \in Workers :
        /\ wk[w].pc = "resolve"
        /\ wk[w].status = Some(MergeFailed)
        /\ draft_specs[Row(w).draft_id] = DraftWithBadKey
        /\ wk[w].output.v = Response(MergeOkOutput)
        /\ wk[w].merged.v.errors = <<DraftError(Foo, ParseErrorDetail)>>
        /\ wk[w].catalog = None

\* ---------------------------------------------------------------- C20
\* build_merged_catalog has returned to worker w, whose transaction has
\* written no spec yet.
MergeReturned(w) ==
    \/ wk[w].pc = "upsert"
    \/ wk[w].pc = "resolve" /\ wk[w].status = Some(MergeFailed)
\* The arguments of build_merged_catalog and the specs its queries see.
MergeInputs(w) ==
    [capture_name |-> Row(w).capture_name,
     discover_output |-> wk[w].output,
     endpoint_config |-> EndpointConfig,
     image_name |-> Row(w).image_name,
     image_tag |-> Row(w).image_tag,
     update_only |-> Row(w).update_only,
     pointers |-> ResourcePathPointers,
     drafted |-> TxnDraftSpecs(w, Row(w).draft_id),
     live |-> live_specs]
\* What it returned: the catalog, or the errors.
MergeResult(w) ==
    IF wk[w].catalog.some THEN [catalog |-> wk[w].catalog.v]
    ELSE [errors |-> wk[w].merged.v.errors]

StatusesWritten ==
    {job_status[j] : j \in JobIds}
    \cup {wk[w].txn.status.v : w \in {x \in Workers : wk[x].txn.status.some}}
IsSuccess(status) == status.type = "success"
\* The statement with the field names in camel case: a Success with a
\* publication has a field publicationId, one with unchanged specs a field
\* specsUnchanged.
C21_Original ==
    \A status \in StatusesWritten :
        LET json == Serialize(status)
        IN  /\ json["type"] = status.type
            /\ "publicationId" \in DOMAIN json
                 <=> (IsSuccess(status) /\ status.publication_id.some)
            /\ "specsUnchanged" \in DOMAIN json
                 <=> (IsSuccess(status) /\ status.specs_unchanged)
\* C21: a status is serialized as a record whose field "type" holds the
\* variant's name in camel case; it has no other field but, for Success,
\* publication_id (the id) exactly when there is a publication and
\* specs_unchanged (true) exactly when the specs are unchanged.
C21_Serialized ==
    \A status \in StatusesWritten :
        LET json == Serialize(status)
            has_id == IsSuccess(status) /\ status.publication_id.some
            unchanged == IsSuccess(status) /\ status.specs_unchanged
        IN  /\ json["type"] = status.type
            /\ DOMAIN json = {"type"}
                  \cup (IF has_id THEN {"publication_id"} ELSE {})
                  \cup (IF unchanged THEN {"specs_unchanged"} ELSE {})
            /\ has_id => json["publication_id"] = status.publication_id.v
            /\ unchanged => json["specs_unchanged"] = TRUE
\* A Success without a publication and with changed specs is committed: it
\* is the discriminator alone.  Another job's Success has a publication.
C21_Witness ==
    \E j \in JobIds :
        /\ job_status[j] = Success(None, FALSE)
        /\ Serialize(job_status[j]) = [type |-> "success"]

\* ---------------------------------------------------------------- C22
\* The spec of a name the merge is to start from: the draft's, else the live
\* one, else none.
Effective(name, spec_type, drafted, live) ==
    IF drafted[name].spec_type = spec_type THEN drafted[name]
    ELSE IF live[name].spec_type = spec_type THEN live[name]
    ELSE NoSpec
ErrorNames(merged) == {merged.errors[i].catalog_name : i \in 1..Len(merged.errors)}
\* merge_capture can evaluate every resource worker w's discovery reported.
Evaluable(w) ==
    \A i \in 1..Len(wk[w].output.v.bindings) :
        ResourcePathPointers \subseteq DOMAIN wk[w].output.v.bindings[i].resourceConfig

\* C22: the merge starts from the draft's spec of each name it resolves, from
\* the live one when the draft has none, and from nothing when there is
\* neither.  A capture that decodes gives the merged capture its interval (a
\* name with no capture gives the default one), a collection that decodes its
\* fields other than key and schema (a name with no collection gives a new
\* collection); a spec that does not decode gives an error of its name, and
\* a name with neither spec gives no error.  (The merge of the capture fails
\* for one more reason only: a resource merge_capture cannot evaluate.)
C22_DraftThenLive ==
    [][\A w \in Workers :
         LET drafted == TxnDraftSpecs(w, Row(w).draft_id)
         IN  /\ (MergeStep(w, "merge") /\ ParseOk(wk[w].output.v)) =>
                   LET spec == Effective(Row(w).capture_name, "capture",
                                         drafted, live_specs)
                       after == wk'[w].merged.v
                   IN  IF spec = NoSpec
                       THEN /\ after.ok <=> Evaluable(w)
                            /\ after.ok =>
                                  after.catalog.captures[Row(w).capture_name].interval
                                     = DefaultInterval
                       ELSE IF DecodeOk("capture", spec)
                       THEN /\ after.ok <=> Evaluable(w)
                            /\ after.ok =>
                                  after.catalog.captures[Row(w).capture_name].interval
                                     = spec.interval
                       ELSE ~after.ok /\ Row(w).capture_name \in ErrorNames(after)
             /\ MergeStep(w, "collections") =>
                   \A t \in Range(wk[w].merged.v.targets) :
                       LET spec == Effective(t, "collection", drafted, live_specs)
                           after == wk'[w].merged.v
                           d == wk[w].merged.v.discovered[
                                   LastIndex(wk[w].merged.v.targets, t)]
                       IN  IF spec = NoSpec
                           THEN /\ ~after.ok => t \notin ErrorNames(after)
                                /\ wk'[w].catalog.some =>
                                      wk'[w].catalog.v.collections[t] = NewCollection(d)
                           ELSE IF DecodeOk("collection", spec)
                           THEN /\ ~after.ok => t \notin ErrorNames(after)
                                /\ wk'[w].catalog.some =>
                                      \A f \in (DOMAIN spec) \
                                                {"spec_type", "key", SchemaField(spec)} :
                                         wk'[w].catalog.v.collections[t][f] = spec[f]
                           ELSE ~after.ok /\ t \in ErrorNames(after)
      ]_vars
\* A job whose capture and collections are neither drafted nor live has
\* committed Success: its draft holds the new specs and no error.
C22_Witness ==
    \E j \in JobIds :
        /\ live_specs = NoSpecs
        /\ job_status[j] = Success(None, FALSE)
        /\ draft_errors[rows[j].draft_id] = {}
        /\ draft_specs[rows[j].draft_id][TheCapture].spec_type = "capture"
        /\ draft_specs[rows[j].draft_id][Foo] = RawCollection(<<"foo">>, "s1")
        /\ draft_specs[rows[j].draft_id][Other] = NoSpec

\* ---------------------------------------------------------------- C23
\* The pieces of the texts, unescaped, written out one by one.
Unescaped(t) ==
    CASE t = <<"~", "0">> -> <<"~">>
      [] t = <<"~", "1">> -> <<"/">>
      [] t = <<"~", "0", "1">> -> <<"~", "1">>
      [] t = <<"a", "~", "1", "a">> -> <<"a", "/", "a">>
      [] OTHER -> t
IsDecimal(t) == t # <<>> /\ \A i \in 1..Len(t) : t[i] \in DecimalDigits
NoLeadingZero(t) == Len(t) = 1 \/ Head(t) # "0"
\* The token of an unescaped piece: every decimal is an index; every decimal
\* that a usize holds is an index.
DecimalToken(t) ==
    IF t = <<"-">> THEN NextIndex
    ELSE IF IsDecimal(t) /\ NoLeadingZero(t) THEN Index(t)
    ELSE Property(t)
UsizeToken(t) ==
    IF t = <<"-">> THEN NextIndex
    ELSE IF IsDecimal(t) /\ NoLeadingZero(t) /\ DigitsLeq(t, UsizeMax) THEN Index(t)
    ELSE Property(t)
PieceLists == UNION {[1..n -> Pieces] : n \in 0..MaxTokens}
ParsedAs(Token(_)) ==
    ret.op = "try_from" =>
       /\ ret.arg = <<>> => ret.result.ok /\ iter(ret.result.tape) = <<>>
       /\ ret.arg # <<>> /\ Head(ret.arg) # "/" =>
             ~ret.result.ok /\ ret.result.error = "NotRooted"
       /\ \A ps \in PieceLists :
             ret.arg = Join(ps) =>
                /\ ret.result.ok
                /\ iter(ret.result.tape)
                      = [i \in 1..Len(ps) |-> Token(Unescaped(ps[i]))]

\* C23 as stated: try_from gives the root pointer for the empty text,
\* NotRooted for a text without the leading '/', and otherwise, per unescaped
\* segment, NextIndex for "-", Index(n) for every unsigned decimal without a
\* leading '+' or leading zero, Property for the rest; the iteration yields
\* these tokens in order.
C23_Original == ParsedAs(DecimalToken)

\* C23, amended: the same, where a decimal is Index(n) only when n is at most
\* usize::MAX; a larger decimal is a Property.
C23_Parsed == ParsedAs(UsizeToken)

\* "/~01/1" was parsed to Property("~1"), Index(1), and "/01/-" to
\* Property("01"), NextIndex.
C23_Witness ==
    /\ ret.op = "try_from"
    /\ ret.arg = <<"/", "~", "0", "1", "/", "1">>
    /\ ret.result.ok
    /\ iter(ret.result.tape) = <<Property(<<"~", "1">>), Index(<<"1">>)>>

\* ---------------------------------------------------------------- C24
\* Two JSON values are the same value.
RECURSIVE Same(_, _)
Same(a, b) ==
    /\ a.t = b.t
    /\ a.t = "scalar" => a.v = b.v
    /\ a.t = "arr" =>
          Len(a.v) = Len(b.v) /\ \A i \in 1..Len(a.v) : Same(a.v[i], b.v[i])
    /\ a.t = "obj" =>
          DOMAIN a.v = DOMAIN b.v /\ \A k \in DOMAIN a.v : Same(a.v[k], b.v[k])
SameOption(a, b) == a.some = b.some /\ (a.some => Same(a.v, b.v))

\* The child of a value that a token points at: in an object the property
\* named by the token (the decimal text of an index, "-" for NextIndex); in
\* an array the element at an index below its length; nothing otherwise.
Child(v, token) ==
    IF v.t = "obj"
    THEN LET name == IF token.kind = "NextIndex" THEN <<"-">> ELSE token.v
         IN  IF name \in DOMAIN v.v THEN Some(v.v[name]) ELSE None
    ELSE IF v.t = "arr" /\ token.kind = "Index" /\ Len(token.v) <= 3
            /\ ToNat(token.v, 0) < Len(v.v)
    THEN Some(v.v[ToNat(token.v, 0) + 1])
    ELSE None
\* The value at the location of a pointer: the child, by the last token, of
\* the value at the location of the tokens before it.
RECURSIVE ValueAt(_, _)
ValueAt(v, tokens) ==
    IF tokens = <<>> THEN Some(v)
    ELSE LET parent == ValueAt(v, SubSeq(tokens, 1, Len(tokens) - 1))
         IN  IF parent.some THEN Child(parent.v, tokens[Len(tokens)]) ELSE None

\* C24: a query returns the value at the pointed location when every step
\* exists and None otherwise; on an object Index(n) looks up the property
\* named by the decimal text of n and NextIndex the property "-"; the root
\* pointer returns the whole document; the document is not modified.
C24_Query ==
    [][ret'.op = "query" =>
          /\ doc' = doc
          /\ SameOption(ret'.result, ValueAt(doc, Tokens(ret'.arg)))
          /\ ret'.arg = <<>> => SameOption(ret'.result, Some(doc))]_vars

\* On the document of test_ptr_query, "/1" returned the value of the
\* property "1".
C24_Witness ==
    /\ Same(doc, QueryDoc)
    /\ ret.op = "query"
    /\ ret.arg = <<"/", "1">>
    /\ SameOption(ret.result, Some(Scalar("10")))

\* ---------------------------------------------------------------- C25
Prefix(tokens, n) == SubSeq(tokens, 1, n)
IsPrefix(p, q) == Len(p) <= Len(q) /\ Prefix(q, Len(p)) = p
\* A parent on the way of the pointer is a scalar, or an array addressed by
\* a Property.
Incompatible(v, tokens) ==
    \E i \in 1..Len(tokens) :
        LET parent == ValueAt(v, Prefix(tokens, i - 1))
        IN  /\ parent.some
            /\ \/ parent.v.t = "scalar"
               \/ parent.v.t = "arr" /\ tokens[i].kind = "Property"
\* What a create step did to the parent of its i-th token.
ParentCreated(before, after, tokens, i) ==
    LET parent == ValueAt(before, Prefix(tokens, i - 1))
        now == ValueAt(after, Prefix(tokens, i - 1))
        token == tokens[i]
    IN  parent.some =>
          /\ now.some
          /\ parent.v.t = "null" =>
                now.v.t = IF token.kind = "Property" THEN "obj" ELSE "arr"
          /\ parent.v.t = "arr" /\ token.kind = "Index" =>
                Len(now.v.v) = IF Len(token.v) <= 3 /\ ToNat(token.v, 0) < Len(parent.v.v)
                               THEN Len(parent.v.v)
                               ELSE ToNat(token.v, 0) + 1
          /\ parent.v.t = "arr" /\ token.kind = "NextIndex" =>
                Len(now.v.v) = Len(parent.v.v) + 1
          /\ parent.v.t = "obj" =>
                now.v.t = "obj" /\ PropertyName(token) \in DOMAIN now.v.v
\* The create step from `before` to `after` that returned `call`.
CreateAsStated(before, after, call) ==
    LET tokens == Tokens(call.arg)
    IN  /\ call.result \in {"some", "none"}
        /\ call.result = "none" <=> Incompatible(before, tokens)
        /\ call.result = "some" =>
              /\ \A i \in 1..Len(tokens) : ParentCreated(before, after, tokens, i)
              /\ call.swap_in.some /\ ValueAt(after, tokens).some =>
                    Same(ValueAt(after, tokens).v, call.swap_in.v)
        /\ \A s \in NavTexts :
              LET other == Tokens(s)
              IN  /\ ValueAt(before, other).some
                  /\ ~IsPrefix(other, tokens)
                  /\ ~IsPrefix(tokens, other)
                  => SameOption(ValueAt(after, other), ValueAt(before, other))

\* C25 as stated: a create returns the location, creating what is missing
\* (a Null parent becomes an Object for a Property and an Array for an Index
\* or NextIndex, an Index at or past the end of an array extends it with
\* Nulls up to that index, NextIndex appends one Null, on an object Index
\* and NextIndex are property names); it returns None only when a parent is
\* a scalar or an array is addressed by a Property; the values at the other
\* locations are preserved.
C25_Original == [][ret'.op = "create" => CreateAsStated(doc, doc', ret')]_vars

\* ---------------------------------------------------------------- C26
\* Worker w has launched a subprocess in its attempt.
Launched(w) ==
    \/ "pull" \in Range(wk[w].steps)
    \/ "discover" \in Range(wk[w].steps)
    \/ InSubprocess(w)
PreflightStatuses == {TagFailed, WrongProtocol, ImageForbidden}
\* C26: an attempt that returns TagFailed, WrongProtocol or ImageForbidden
\* launches neither pull nor discover, and an attempt launches pull or
\* discover only after the three pre-flight checks have passed.  No row is
\* committed with one of the three statuses unless it fails a check.
C26_NoSubprocessBeforeChecks ==
    /\ \A w \in Workers :
         Holding(w) =>
            /\ (wk[w].status.some /\ wk[w].status.v \in PreflightStatuses)
                  => ~Launched(w)
            /\ (Launched(w) \/ wk[w].pc = "pull") =>
                  /\ Row(w).connector_tag_job_success
                  /\ Row(w).protocol = "capture"
                  /\ does_connector_exist(Row(w).image_name)
                  /\ wk[w].steps[1] = "does_connector_exist"
    /\ \A j \in JobIds :
         job_status[j] \in PreflightStatuses =>
            ~(/\ rows[j].connector_tag_job_success
              /\ rows[j].protocol = "capture"
              /\ does_connector_exist(rows[j].image_name))
\* An attempt returned WrongProtocol for a row whose image is registered,
\* having looked nothing up and launched nothing.
C26_Witness ==
    \E w \in Workers :
        /\ Resolved(w)
        /\ wk[w].status.v = WrongProtocol
        /\ does_connector_exist(Row(w).image_name)
        /\ ~Launched(w)
        /\ wk[w].steps = <<"resolve">>

\* ---------------------------------------------------------------- C27
\* The side effects of one attempt, in their order.  The errors of a failed
\* discover or merge are inserted in place of what would have followed.
StepOrder ==
    <<"does_connector_exist", "pull", "delete_errors", "discover",
      "resolve_capture", "merge_capture", "resolve_collections",
      "merge_collections", "upsert_specs", "prune", "create_publication",
      "insert_errors", "resolve">>
StepRank ==
    [step \in Range(StepOrder) |-> CHOOSE i \in 1..Len(StepOrder) : StepOrder[i] = step]
Did(w, step) == step \in Range(wk[w].steps)
\* What must have succeeded before a step is taken.
Requires(w, step) ==
    CASE step = "pull" -> {"does_connector_exist"}
      [] step = "delete_errors" ->
            IF Row(w).image_tag # LOCAL_IMAGE_TAG THEN {"pull"}
            ELSE {"does_connector_exist"}
      [] step = "discover" -> {"delete_errors"}
      [] step = "resolve_capture" -> {"discover"}
      [] step = "merge_capture" -> {"resolve_capture"}
      [] step = "resolve_collections" -> {"merge_capture"}
      [] step = "merge_collections" -> {"resolve_collections"}
      [] step = "upsert_specs" -> {"merge_collections"}
      [] step = "prune" -> {"upsert_specs"}
      [] step = "create_publication" -> {"prune"}
      [] step = "insert_errors" -> {"discover"}
      [] OTHER -> {}
\* C27: the side effects of an attempt occur in the one order, each after
\* the step before it succeeded: no discover after a failed pull, no merge
\* after a failed discover, a prune only for auto_publish, no publication
\* before the upsert, the write of the status last and the commit after it.
C27_StepOrder ==
    \A w \in Workers :
        Holding(w) =>
           /\ \A i \in 1..(Len(wk[w].steps) - 1) :
                 StepRank[wk[w].steps[i]] < StepRank[wk[w].steps[i + 1]]
           /\ \A i \in DOMAIN wk[w].steps :
                 \A before \in Requires(w, wk[w].steps[i]) :
                     \E k \in 1..(i - 1) : wk[w].steps[k] = before
           /\ Did(w, "prune") => Row(w).auto_publish
           /\ Did(w, "insert_errors") => ~Did(w, "upsert_specs")
           /\ (wk[w].status.some /\ wk[w].status.v = PullFailed) =>
                 ~Did(w, "delete_errors") /\ ~Did(w, "discover")
           /\ (wk[w].status.some /\ wk[w].status.v = DiscoverFailed) =>
                 ~Did(w, "resolve_capture") /\ ~Did(w, "upsert_specs")
           /\ wk[w].txn.publication.some =>
                 Did(w, "upsert_specs") /\ Did(w, "create_publication")
           /\ Did(w, "resolve") <=> wk[w].pc = "commit"
           /\ wk[w].txn.status.some <=> Did(w, "resolve")
           /\ Did(w, "resolve") => wk[w].status.some
\* An attempt that went through every step, before its commit.
C27_Witness ==
    \E w \in Workers :
        /\ wk[w].pc = "commit"
        /\ wk[w].steps = <<"does_connector_exist", "pull", "delete_errors", "discover",
                           "resolve_capture", "merge_capture", "resolve_collections",
                           "merge_collections", "upsert_specs", "prune",
                           "create_publication", "resolve">>

\* ---------------------------------------------------------------- C28
\* The side effects a step of worker w added to its attempt.
Added(w) == SubSeq(wk'[w].steps, Len(wk[w].steps) + 1, Len(wk'[w].steps))
\* A spec is there and does not decode.
Undecodable(spec_type, spec) == spec # NoSpec /\ ~DecodeOk(spec_type, spec)
\* build_merged_catalog returned errors and no catalog; the job is
\* MergeFailed and nothing was written to the draft's specs.
FailedNoCatalog(w) ==
    /\ wk'[w].pc = "resolve"
    /\ wk'[w].status = Some(MergeFailed)
    /\ wk'[w].catalog = None
    /\ ~wk'[w].merged.v.ok
    /\ wk'[w].merged.v.errors # <<>>
    /\ "catalog" \notin DOMAIN wk'[w].merged.v
    /\ wk'[w].txn.specs = wk[w].txn.specs
    /\ wk'[w].txn.errors_inserted
          = wk[w].txn.errors_inserted
              \cup ErrorRows(Row(w).id, wk'[w].merged.v.errors)

\* C28: build_merged_catalog stops at the first step that yields errors.  A
\* capture that does not decode: no merge_capture, no collection resolved.
\* A merge_capture that fails: no collection resolved.  A collection that
\* does not decode: no merge_collections.  Each time the result is the
\* errors without a catalog and the job is MergeFailed; in every other case
\* the result is the catalog of the merged capture and of every collection
\* it targets.
C28_ShortCircuit ==
    [][\A w \in Workers :
         LET drafted == TxnDraftSpecs(w, Row(w).draft_id)
         IN  /\ (MergeStep(w, "merge") /\ ParseOk(wk[w].output.v)) =>
                   IF Undecodable("capture",
                         Effective(Row(w).capture_name, "capture", drafted, live_specs))
                   THEN /\ Added(w) = <<"resolve_capture", "insert_errors">>
                        /\ FailedNoCatalog(w)
                   ELSE IF \E i \in 1..Len(wk[w].output.v.bindings) :
                              ~(ResourcePathPointers
                                  \subseteq DOMAIN wk[w].output.v.bindings[i].resourceConfig)
                   THEN /\ Added(w) = <<"resolve_capture", "merge_capture",
                                        "insert_errors">>
                        /\ FailedNoCatalog(w)
                   ELSE /\ Added(w) = <<"resolve_capture", "merge_capture">>
                        /\ wk'[w].pc = "collections"
             /\ MergeStep(w, "collections") =>
                   IF \E t \in Range(wk[w].merged.v.targets) :
                         Undecodable("collection",
                            Effective(t, "collection", drafted, live_specs))
                   THEN /\ Added(w) = <<"resolve_collections", "insert_errors">>
                        /\ FailedNoCatalog(w)
                   ELSE /\ Added(w) = <<"resolve_collections", "merge_collections">>
                        /\ wk'[w].pc = "upsert"
                        /\ wk'[w].catalog.some
                        /\ DOMAIN wk'[w].catalog.v.captures = {Row(w).capture_name}
                        /\ Range(wk[w].merged.v.targets)
                              \subseteq DOMAIN wk'[w].catalog.v.collections
      ]_vars
\* A job is MergeFailed because merge_capture failed: the capture was
\* resolved and merged, no collection was resolved.
C28_Witness ==
    \E w \in Workers :
        /\ wk[w].pc = "resolve"
        /\ wk[w].status = Some(MergeFailed)
        /\ wk[w].merged.v.errors
              = <<DraftError(Row(w).capture_name, InvalidResourceDetail)>>
        /\ Did(w, "merge_capture")
        /\ ~Did(w, "resolve_collections")
        /\ wk[w].catalog = None

\* ---------------------------------------------------------------- C29
\* The name a new binding of a discovered binding would target.
DerivedName(w, discovered) == Name(Row(w).capture_name.prefix, discovered.recommendedName)
\* C29: the names the collection resolution is given are the targets of the
\* bindings of the merged capture, in the order of the bindings.  The
\* derived name of a discovered binding that update_only dropped is not
\* among them (unless a binding of the merged capture targets it), and a
\* retained existing binding is there under its existing target.  What the
\* resolution finds goes to these names alone: the errors name targets
\* only, and the merged catalog holds the collections of the targets and no
\* other.
C29_TargetsOfMergedCapture ==
    [][\A w \in Workers :
         /\ CaptureMerged(w) =>
               LET merged == wk'[w].merged.v.catalog.captures[Row(w).capture_name].bindings
                   targets == wk'[w].merged.v.targets
                   existing == ExistingBindings(w)
                   output == wk[w].output.v.bindings
               IN  /\ Len(targets) = Len(merged)
                   /\ \A i \in 1..Len(merged) : targets[i] = merged[i].target
                   /\ \A i \in 1..Len(output) :
                         LET k == MatchIndex(output[i].resourceConfig, existing,
                                             ResourcePathPointers)
                         IN  /\ k # 0 => existing[k].target \in Range(targets)
                             /\ (k = 0 /\ Row(w).update_only
                                  /\ \A b \in Range(existing) :
                                        b.target # DerivedName(w, output[i]))
                                   => DerivedName(w, output[i]) \notin Range(targets)
         /\ MergeStep(w, "collections") =>
               /\ ~wk'[w].merged.v.ok =>
                     ErrorNames(wk'[w].merged.v) \subseteq Range(wk[w].merged.v.targets)
               /\ wk'[w].catalog.some =>
                     DOMAIN wk'[w].catalog.v.collections = Range(wk[w].merged.v.targets)
      ]_vars
\* The drafted capture binds foo to the collection "other": the merge of a
\* discovery of foo, bar and quz resolved "other", not the derived name of
\* foo, then the derived names of bar and quz.
C29_Witness ==
    \E w \in Workers :
        /\ wk[w].pc = "upsert"
        /\ ~Row(w).update_only
        /\ wk[w].output.v = Response(MergeOkOutput)
        /\ wk[w].merged.v.targets = <<Other, Bar, Quz>>
        /\ DerivedName(w, MergeOkOutput[1]) = Foo
        /\ DOMAIN wk[w].catalog.v.collections = {Other, Bar, Quz}

\* ---------------------------------------------------------------- C30
\* The errors of the given name among the errors build_merged_catalog
\* returned, and the resolved specs of that name that do not decode.
ErrorsOf(errors, name) == {i \in 1..Len(errors) : errors[i].catalog_name = name}
MalformedOf(resolved, name) ==
    {i \in Malformed(resolved) : resolved[i].catalog_name = name}
\* The errors are one per resolved spec that does not decode, of its name.
OnePerMalformed(w, resolved) ==
    IF Malformed(resolved) = {}
    THEN wk'[w].pc \in {"collections", "upsert"} \/ wk'[w].merged.v.errors
                            = <<DraftError(Row(w).capture_name, InvalidResourceDetail)>>
    ELSE /\ ~wk'[w].merged.v.ok
         /\ Len(wk'[w].merged.v.errors) = Cardinality(Malformed(resolved))
         /\ \A i \in 1..Len(resolved) :
               Cardinality(ErrorsOf(wk'[w].merged.v.errors, resolved[i].catalog_name))
                  = Cardinality(MalformedOf(resolved, resolved[i].catalog_name))

\* C30: when n of the specs one resolution returns do not decode, the step
\* yields n errors, one for each of them and of its name; the specs after a
\* failing one are decoded all the same, and a spec that decodes adds no
\* error.
C30_OneErrorPerSpec ==
    [][\A w \in Workers :
         LET drafted == TxnDraftSpecs(w, Row(w).draft_id)
         IN  /\ (MergeStep(w, "merge") /\ ParseOk(wk[w].output.v)) =>
                   OnePerMalformed(w,
                      resolve_merge_target_specs(<<Row(w).capture_name>>, "capture",
                                                 drafted, live_specs))
             /\ MergeStep(w, "collections") =>
                   OnePerMalformed(w,
                      resolve_merge_target_specs(wk[w].merged.v.targets, "collection",
                                                 drafted, live_specs))
      ]_vars
\* The drafted collections of foo and bar do not decode, the one of quz
\* does: the resolution for a discovery of foo, bar and quz gave an error
\* for foo and an error for bar.
C30_Witness ==
    \E w \in Workers :
        /\ wk[w].pc = "resolve"
        /\ wk[w].status = Some(MergeFailed)
        /\ draft_specs[Row(w).draft_id] = DraftWithBadKeys
        /\ wk[w].output.v = Response(MergeOkOutput)
        /\ wk[w].merged.v.errors
              = <<DraftError(Foo, ParseErrorDetail), DraftError(Bar, ParseErrorDetail)>>

\* ---------------------------------------------------------------- C31
\* C31: when a discovered resource cannot be evaluated against the resource
\* path pointers, the merge of a capture that decodes (or of none) returns
\* one error: of the capture's name, without a scope, with the text of
\* merge_capture's error.  No collection is resolved or merged, nothing is
\* written to the draft's specs, and the job is MergeFailed.
C31_InvalidResourceFails ==
    [][\A w \in Workers :
         (/\ MergeStep(w, "merge")
          /\ ParseOk(wk[w].output.v)
          /\ ~Evaluable(w)
          /\ ~Undecodable("capture",
                 Effective(Row(w).capture_name, "capture",
                           TxnDraftSpecs(w, Row(w).draft_id), live_specs)))
         => /\ wk'[w].pc = "resolve"
            /\ wk'[w].status = Some(MergeFailed)
            /\ ~wk'[w].merged.v.ok
            /\ wk'[w].merged.v.errors
                 = <<[catalog_name |-> Row(w).capture_name, scope |-> None,
                      detail |-> InvalidResourceDetail]>>
            /\ wk'[w].catalog = None
            /\ "resolve_collections" \notin Range(wk'[w].steps)
            /\ "merge_collections" \notin Range(wk'[w].steps)
            /\ wk'[w].txn.specs = wk[w].txn.specs
      ]_vars
\* The job of a discovery with a resource that has no "table" is about to
\* commit MergeFailed and the one error.
C31_Witness ==
    \E w \in Workers :
        /\ wk[w].pc = "commit"
        /\ wk[w].txn.status = Some(MergeFailed)
        /\ wk[w].output = Some(Response(InvalidResourceOutput))
        /\ wk[w].txn.errors_inserted
              = ErrorRows(Row(w).id,
                          <<DraftError(Row(w).capture_name, InvalidResourceDetail)>>)
        /\ \A n \in Names : wk[w].txn.specs[n] = Untouched

\* --------------------------------------------------------------- C32
\* C32: the commit of a job that resolved to Success without auto_publish
\* leaves in its draft, under every name of the merged catalog, the merged
\* spec (whatever the draft held under that name before), and leaves every
\* other spec of that draft, and every other draft, as it was.
C32_UpsertOverwritesByName ==
    [][\A w \in Workers :
         (/\ Resolved(w)
          /\ wk[w].catalog.some
          /\ ~Row(w).auto_publish
          /\ job_status'[wk[w].job] # Queued)
         => /\ job_status'[wk[w].job] = Success(None, FALSE)
            /\ \A n \in Names :
                  draft_specs'[Row(w).draft_id][n] =
                     IF n \in CatalogNames(wk[w].catalog.v)
                     THEN CatalogSpec(wk[w].catalog.v, n)
                     ELSE draft_specs[Row(w).draft_id][n]
            /\ \A d \in Drafts \ {Row(w).draft_id} : draft_specs'[d] = draft_specs[d]
      ]_vars
C32_Witness ==
    /\ ~rows[1].auto_publish
    /\ job_status[1] = Success(None, FALSE)
    /\ live_specs = LiveMergeOk
    /\ draft_specs["d1"][Quz] = DraftedQuz
    /\ draft_specs["d1"][Other] \notin {NoSpec, ExistingCollection}
    /\ draft_specs["d1"][TheCapture] \notin {NoSpec, DraftedCapture}

\* --------------------------------------------------------------- C33
\* C33: without update_only the merged capture has one binding for each
\* discovered binding, in the order of discovery.  The binding of a
\* discovered resource that matches no existing binding is new: it carries
\* the discovered resource configuration and targets the collection named by
\* the capture's prefix and the recommended name.  The binding of one that
\* matches keeps the existing target, so it adds none.  The new bindings are
\* as many as the discovered resources without a match.
C33_UnmatchedBindingAdded ==
    [][\A w \in Workers :
         (CaptureMerged(w) /\ ~Row(w).update_only) =>
            LET existing == ExistingBindings(w)
                merged == MergedBindings(wk'[w].merged.v)
                discovered == wk[w].output.v.bindings
                unmatched == {j \in 1..Len(discovered) :
                                MatchIndex(discovered[j].resourceConfig, existing,
                                           ResourcePathPointers) = 0}
            IN  /\ Len(merged) = Len(discovered)
                /\ wk'[w].merged.v.discovered = discovered
                /\ \A j \in unmatched :
                      merged[j] = [resource |-> discovered[j].resourceConfig,
                                   target |-> DerivedName(w, discovered[j])]
                /\ \A j \in (1..Len(discovered)) \ unmatched :
                      merged[j].target =
                         existing[MatchIndex(discovered[j].resourceConfig, existing,
                                             ResourcePathPointers)].target
                /\ Len(merged) - Cardinality((1..Len(discovered)) \ unmatched)
                     = Cardinality(unmatched)
      ]_vars
\* The capture of test_catalog_merge_ok binds foo; foo, bar and quz are
\* discovered: three bindings, those of bar and quz new.
C33_Witness ==
    \E w \in Workers :
        /\ wk[w].pc = "collections"
        /\ ~Row(w).update_only
        /\ wk[w].output = Some(Response(MergeOkOutput))
        /\ ExistingBindings(w) = DraftedCapture.bindings.v
        /\ Len(MergedBindings(wk[w].merged.v)) = 3
        /\ wk[w].merged.v.targets = <<Other, Bar, Quz>>
        /\ MergedBindings(wk[w].merged.v)[2] = [resource |-> [table |-> "bar"], target |-> Bar]
        /\ MergedBindings(wk[w].merged.v)[3] = [resource |-> [table |-> "quz"], target |-> Quz]

\* --------------------------------------------------------------- C34
\* What the catalog of worker w's attempt may name: the job's capture and
\* the targets of the merged capture's bindings.
OwnNames(w) == {Row(w).capture_name} \cup Range(wk[w].merged.v.targets)
\* A collection of the catalog comes from the spec that the job's own draft,
\* else the live specs, hold under its name: it keeps every field of that
\* spec but the key and the schema; when there is no such spec it is new and
\* has a key and a schema alone.
FromOwnSpecs(w, name, collection) ==
    LET own == Effective(name, "collection",
                         TxnDraftSpecs(w, Row(w).draft_id), live_specs)
    IN  IF own = NoSpec THEN DOMAIN collection = {"key", "schema"}
        ELSE /\ DOMAIN collection = DOMAIN Decode("collection", own)
             /\ \A f \in DOMAIN collection \ {"key", "schema", "writeSchema"} :
                   collection[f] = own[f]
\* C34: the catalog of an attempt starts empty.  After merge_capture it holds
\* one capture, under the job's capture name, and no collection; when
\* build_merged_catalog returns it, it holds that capture and a collection
\* for each target of the merged capture, each built from the job's own
\* draft or the live specs, and nothing else: no spec left by another
\* attempt, held by another worker's catalog or by another draft.
C34_CatalogIsOwn ==
    [][\A w \in Workers :
         /\ CaptureMerged(w) =>
               /\ DOMAIN wk'[w].merged.v.catalog.captures = {Row(w).capture_name}
               /\ DOMAIN wk'[w].merged.v.catalog.collections = {}
         /\ CollectionsMerged(w) =>
               LET catalog == wk'[w].catalog.v
               IN  /\ DOMAIN catalog.captures = {Row(w).capture_name}
                   /\ catalog.captures = wk[w].merged.v.catalog.captures
                   /\ DOMAIN catalog.collections = Range(wk[w].merged.v.targets)
                   /\ CatalogNames(catalog) = OwnNames(w)
                   /\ \A n \in DOMAIN catalog.collections :
                         FromOwnSpecs(w, n, catalog.collections[n])
      ]_vars
\* Job 2 committed a capture of foo and bar to draft d2.  The catalog of
\* job 1, on draft d1, holds the capture and foo alone.
C34_Witness ==
    \E w \in Workers :
        /\ wk[w].pc = "upsert"
        /\ wk[w].job = 1
        /\ rows[2].draft_id = "d2"
        /\ job_status[2] = Success(None, FALSE)
        /\ draft_specs["d2"][Bar] # NoSpec
        /\ draft_specs["d1"][Bar] = NoSpec
        /\ CatalogNames(wk[w].catalog.v) = {TheCapture, Foo}

\* --------------------------------------------------------------- C35
\* The specs of a draft after one job ran alone on it, from its dequeue to
\* its commit, with the given discover output: the merged catalog is
\* upserted and, with auto_publish, the unchanged specs are pruned; a job
\* that fails writes no spec.
SerialDraft(row, output, drafted, live) ==
    LET capture == build_merged_capture(row, output, drafted, live)
        result == build_merged_collections(capture, drafted, live)
        upserted == upsert_specs(drafted, result.catalog)
    IN  IF ~ParseOk(output) THEN drafted
        ELSE IF ~capture.ok THEN drafted
        ELSE IF ~result.ok THEN drafted
        ELSE IF ~row.auto_publish THEN upserted
        ELSE [n \in Names |->
                IF n \in prune_unchanged_draft_specs(upserted, live) THEN NoSpec
                ELSE upserted[n]]
\* The outputs a job's discover may have ended with.
SerialOutputs == {Response(b) : b \in DiscoveredLists} \cup {TextOutput}
\* The committing job ran after every job committed so far.
RanLast(w) ==
    draft_specs'[Row(w).draft_id]
        = SerialDraft(Row(w), wk[w].output.v, draft_specs[Row(w).draft_id], live_specs)
\* The committing job ran first, on the draft `drafted` the run started
\* with, and a job that has committed ran after it, with some output.
RanFirst(w, drafted) ==
    \E a \in JobIds \ {wk[w].job} :
        /\ rows[a].draft_id = Row(w).draft_id
        /\ job_status[a] \notin {Queued, TagFailed}
        /\ \E o \in SerialOutputs :
              draft_specs'[Row(w).draft_id]
                 = SerialDraft(rows[a], o,
                               SerialDraft(Row(w), wk[w].output.v, drafted, live_specs),
                               live_specs)
\* C35: when a job that merged commits, the specs of its draft are those of a
\* serial run: the job ran after the jobs that committed before it, or it ran
\* first on the draft the run started with and a job that committed before
\* it ran second.
C35_SerialOutcome ==
    [][\A w \in Workers :
         (Resolved(w) /\ wk[w].catalog.some /\ job_status'[wk[w].job] # Queued)
         => \/ RanLast(w)
            \/ \E f \in MergeFixtures : f.live = live_specs /\ RanFirst(w, f.drafted)
            \/ \E f \in Fixtures : f.live = live_specs /\ RanFirst(w, f.drafted)
            \/ \E f \in PairFixtures : f.live = live_specs /\ RanFirst(w, f.drafted)
      ]_vars

\* --------------------------------------------------------------- C36
\* The publications created for job j (their detail names the discover).
PublicationsOf(j) == {p \in publications : p.detail.discover = j}
Publishes(status) == status.type = "success" /\ status.publication_id.some
C36_State ==
    /\ \A j \in JobIds :
          /\ Cardinality(PublicationsOf(j)) <= 1
          /\ PublicationsOf(j) # {} <=> Publishes(job_status[j])
          /\ Publishes(job_status[j]) =>
                /\ ~job_status[j].specs_unchanged
                /\ \A p \in PublicationsOf(j) : p.id = job_status[j].publication_id.v
    /\ \A w \in Workers :
          (Returned(w) /\ wk[w].status.v.type # "success") =>
             /\ ~wk[w].txn.publication.some
             /\ \A n \in Names : wk[w].txn.specs[n] = Untouched
             /\ wk[w].pruned = {}
             /\ {"upsert_specs", "prune", "create_publication"} \cap Range(wk[w].steps) = {}
C36_Step ==
    \A j \in JobIds :
        (job_status[j] = Queued /\ job_status'[j] # Queued) =>
           /\ Cardinality(publications' \ publications) <= 1
           /\ publications' # publications <=> Publishes(job_status'[j])
           /\ publications' \ publications = PublicationsOf(j)'
           /\ job_status'[j].type # "success" =>
                 /\ draft_specs' = draft_specs
                 /\ publications' = publications
\* C36: a job's commit creates at most one publication, and creates one
\* exactly when the committed status is Success with a publication_id (the id
\* of that publication); such a status never has specs_unchanged = true; a
\* job whose status is not Success has, when it returns and when it commits,
\* created no publication and neither upserted nor pruned a draft spec.
C36_PublicationIffId == []C36_State /\ [][C36_Step]_vars
\* One job published, another resolved to a failure and left the draft and
\* the publications alone.
C36_Witness ==
    \E j \in JobIds :
        /\ Publishes(job_status[j])
        /\ Cardinality(PublicationsOf(j)) = 1
        /\ Cardinality(publications) = 1
        /\ \E k \in JobIds \ {j} :
              /\ job_status[k] \in {DiscoverFailed, MergeFailed}
              /\ rows[k].capture_name = TheCapture
              /\ rows[k].connector_tag_job_success

\* --------------------------------------------------------------- C37
\* C37: the commit of a job leaves in its draft no draft error when the
\* status is Success; the one error of this attempt when it is
\* DiscoverFailed; the errors this attempt's merge returned when it is
\* MergeFailed.
C37_ErrorsAfterCommit ==
    [][\A w \in Workers :
         (Resolved(w) /\ wk[w].status.some /\ job_status'[wk[w].job] # Queued) =>
            LET errors == draft_errors'[Row(w).draft_id]
                status == job_status'[wk[w].job]
            IN  /\ status.type = "success" => errors = {}
                /\ status = DiscoverFailed =>
                      /\ Cardinality(errors) = 1
                      /\ errors = ErrorRows(wk[w].job,
                                            <<DraftError(Row(w).capture_name,
                                                         Utf8Text(wk[w].output.v))>>)
                /\ status = MergeFailed =>
                      errors = ErrorRows(wk[w].job, wk[w].merged.v.errors)
      ]_vars

\* --------------------------------------------------------------- C38
\* The statuses process() returns before it deletes the draft errors.
EarlyStatuses == {TagFailed, WrongProtocol, ImageForbidden, PullFailed}
\* C38: a job that returns TagFailed, WrongProtocol, ImageForbidden or
\* PullFailed has written nothing in its transaction, and its commit changes
\* the status of its own row and nothing else: the draft errors of earlier
\* attempts, the draft specs, the publications and the other rows' statuses
\* stay as they are.
C38_State ==
    \A w \in Workers :
        (Returned(w) /\ wk[w].status.v \in EarlyStatuses) =>
            /\ wk[w].txn.errors_deleted = {}
            /\ wk[w].txn.errors_inserted = {}
            /\ ~wk[w].txn.publication.some
            /\ \A n \in Names : wk[w].txn.specs[n] = Untouched
C38_Step ==
    \A j \in JobIds :
        (job_status[j] = Queued /\ job_status'[j] \in EarlyStatuses) =>
            /\ UNCHANGED <<draft_errors, draft_specs, publications, live_specs, rows>>
            /\ \A k \in JobIds \ {j} : job_status'[k] = job_status[k]
C38_EarlyFailureWritesStatusOnly == []C38_State /\ [][C38_Step]_vars
\* A failed pull on a draft that holds a spec and an error of an earlier
\* attempt.
C38_Witness ==
    /\ job_status[1] = PullFailed
    /\ draft_errors["d1"] = {OldError}
    /\ draft_specs["d1"] = DraftWithOther
    /\ publications = {}

\* --------------------------------------------------------------- C39
\* C39: every status written to a row reads back as itself: deserializing
\* its serialized form succeeds and gives the same value, also for
\* Success{publication_id: none, specs_unchanged: false}, whose serialized
\* form is the discriminator alone.
C39_RoundTrip ==
    \A status \in StatusesWritten :
        Deserialize(Serialize(status)) = [ok |-> TRUE, v |-> status]

\* --------------------------------------------------------------- C40
\* C40: a create that returns None leaves the document as it was before the
\* call: no Null parent was instantiated, no array extended or appended to,
\* no property inserted.
C40_NoneLeavesDocument ==
    [][(ret'.op = "create" /\ ret'.result = "none") => Same(doc', doc)]_vars
\* A Property on an array that an earlier create made, and a child of a
\* scalar that an earlier create put into an object.
C40_Witness ==
    /\ ret.op = "create"
    /\ ret.result = "none"
    /\ \/ /\ ret.arg = <<"/", "a">>
          /\ Same(doc, Array(<<Null>>))
       \/ /\ ret.arg = <<"/", "a", "/", "a">>
          /\ doc.t = "obj"
          /\ DOMAIN doc.v = {<<"a">>}
          /\ doc.v[<<"a">>].t = "scalar"


====
